---- MODULE Spec2Model ----
(***************************************************************************)
(* The signaling hub of MuCamera (backend/app/websocket_handler.py and the *)
(* websocket endpoints of backend/app/main.py) as a state machine.         *)
(*                                                                         *)
(* The hub is one asyncio process: a handler runs without interruption     *)
(* between two awaits.  connect_device / disconnect_device /               *)
(* disconnect_viewer and the watch_request handler are cut at their awaits *)
(* (registry write | persistence and presence write | session query);      *)
(* the other message handlers are one step each.                           *)
(***************************************************************************)
EXTENDS Integers, Sequences, FiniteSets, TLC

VARIABLES
    devices,             \* table devices: pk -> [device_id, is_online]
    sessions,            \* table watch_sessions, in insertion order
    device_connections,  \* ConnectionManager.device_connections: device_id -> websocket
    viewer_connections,  \* ConnectionManager.viewer_connections: user_id (str) -> websocket
    device_heartbeats,   \* ConnectionManager.device_heartbeats: device_id -> time
    viewer_heartbeats,   \* ConnectionManager.viewer_heartbeats: user_id (str) -> time
    redis_hashes,        \* presence store: the hash fields present, <<name, field>>
    redis_keys,          \* presence store: the plain keys present, key -> value
    redis,               \* RedisClient.redis: the connection, or None (in-memory fallback)
    proxy,               \* proxy_to_device: the locals of the HTTP request being served
    now,                 \* the hub's clock, read by datetime.utcnow() for the heartbeats
    dpc,                 \* device_websocket: where each device connection's handler stands
    dlocal,              \* device_websocket: its local device_id
    vpc,                 \* viewer_websocket: where each viewer connection's handler stands
    vlocal,              \* viewer_websocket: its local user_id
    vreq,                \* handle_viewer_message(watch_request): its locals across the commit
    dsnap,               \* history: the sessions that were active, with their viewer in the
                         \* registry, when a device handler saw its socket closed
    sent,                \* the frames the last step wrote to websockets, in order
    pairing_codes,       \* table pairing_codes, in insertion order
    device_ownership,    \* table device_ownership, in insertion order
    http,                \* register_device, pair_device: the locals of each REST request
    agent,               \* device agent: the fields of DeviceAgent and where connect() stands
    wire,                \* a viewer's socket: what it wrote, what the hub has read and handled,
                         \* and what the hub wrote to the device from it
    chan                 \* device agent: its websocket, _ws_send_lock and the writers of the socket

vars == <<devices, sessions, device_connections, viewer_connections,
          device_heartbeats, viewer_heartbeats, redis_hashes, redis_keys, redis,
          proxy, now, dpc, dlocal, vpc, vlocal, vreq, dsnap, sent,
          pairing_codes, device_ownership, http, agent, wire, chan>>

\* The variables of the REST handlers, and those of the hub.
restvars == <<pairing_codes, device_ownership, http>>
hubvars == <<sessions, device_connections, viewer_connections,
             device_heartbeats, viewer_heartbeats, redis_hashes, redis_keys, redis,
             proxy, dpc, dlocal, vpc, vlocal, vreq, dsnap>>

\* Python's None where a string is expected, and where a row or a number is.
None == "None"
NoRow == 0

\* datetime.utcnow(): what a timestamp column of watch_sessions holds once
\* written (the instant itself is not modelled).
utcnow == "utcnow"
EmptyDict == [x \in {} |-> None]

\* Bound of the model: the rows watch_sessions can hold.
MaxSessions == 1

\* The websockets the environment can open on /ws/device and /ws/viewer.
DevConns == {"dc1", "dc2"}
ViewConns == {"vc1", "vc2"}

\* Rows of the devices table (registered before the hub is observed) and the
\* device_id strings the messages of the environment name: "D1" is the device
\* that connects, "D2" is registered and stays away, "DX" is registered nowhere.
DeviceRows == <<"D1", "D2">>
DeviceIds == {"D1", "D2", "DX"}
ConnectingDeviceIds == {"D1", "DX"}

\* Rows of the users table (primary keys) and the bearer tokens the viewers of
\* the environment present: "tok1" is a valid token of user 1, "bad" decodes to
\* nothing.
UserPks == {1, 2}
Tokens == {"tok1", "bad"}
SdpValues == {"sdp1", "sdp2"}
CandidateValues == {"cand1", "cand2"}
RequestIds == {"r1", "r2"}

\* Bound of the model: the clock is advanced from the instants before this one.
MaxTime == 2

\* Bound of the model: the proxy requests that get a rid.
MaxRequests == 2

\* proxy_to_device: range(60) polls; the statuses it raises; the statuses a
\* device's response envelope carries in the model.
PollAttempts == 60
DeviceOffline == 503
ProxyTimeout == 504
ResponseStatuses == {200, 404}

----------------------------------------------------------------------------
\* Python dicts: d[k] = v, del d[k], k in d.
DictSet(d, k, v) == [x \in DOMAIN d \cup {k} |-> IF x = k THEN v ELSE d[x]]
DictDel(d, k) == [x \in DOMAIN d \ {k} |-> d[x]]
DictGet(d, k) == IF k \in DOMAIN d THEN d[k] ELSE None

\* str(user.id) and int(user_id).
StrOfInt(n) == ToString(n)
IntOfStr(s) == CHOOSE n \in UserPks : ToString(n) = s

\* auth.decode_token / auth.get_current_user: the user row a token names, or None.
decode_token(token) ==
    CASE token = "tok1" -> 1
      [] token = "tok2" -> 2
      [] OTHER -> NoRow

get_current_user(token) ==
    LET user_id == decode_token(token)
    IN IF user_id = NoRow THEN NoRow
       ELSE IF user_id \in UserPks THEN user_id ELSE NoRow

\* select(Device).where(Device.device_id == device_id) ... scalar_one_or_none()
SelectDeviceByDeviceId(device_id) ==
    LET hit == {pk \in DOMAIN devices : devices[pk].device_id = device_id}
    IN IF hit = {} THEN NoRow ELSE CHOOSE pk \in hit : TRUE

\* select(Device).where(Device.id == pk) ... scalar_one_or_none()
SelectDeviceById(pk) == IF pk \in DOMAIN devices THEN pk ELSE NoRow

\* select(WatchSession).where(WatchSession.session_id == session_id) ... scalar_one_or_none()
SelectSession(session_id) ==
    LET hit == {i \in DOMAIN sessions : sessions[i].session_id = session_id}
    IN IF hit = {} THEN NoRow ELSE CHOOSE i \in hit : TRUE

\* update(Device).where(Device.device_id == device_id).values(is_online=flag)
UpdateDeviceOnline(device_id, flag) ==
    [pk \in DOMAIN devices |->
        IF devices[pk].device_id = device_id
        THEN [devices[pk] EXCEPT !.is_online = flag, !.last_seen = utcnow]
        ELSE devices[pk]]

\* A frame that lost its payload value.
Frame_NoArg(to, type, session_id, arg) ==
    [to |-> to, type |-> type, session_id |-> session_id, arg |-> None, code |-> 0]

\* A frame written to websocket `to`: a message with its payload's session_id
\* (NoRow when it has none) and its other payload value, or a close with its code.
Frame(to, type, session_id, arg) ==
    [to |-> to, type |-> type, session_id |-> session_id, arg |-> arg, code |-> 0]

\* A close with the code of a normal closure.
CloseFrame_Normal(to, reason) ==
    [to |-> to, type |-> "close", session_id |-> NoRow, arg |-> reason, code |-> 1000]

\* websocket.close(code=1008, reason=...)
CloseFrame(to, reason) ==
    [to |-> to, type |-> "close", session_id |-> NoRow, arg |-> reason, code |-> 1008]

\* ConnectionManager.send_to_device: the frames it writes (none when the
\* device_id has no websocket in the registry).
send_to_device(device_id, type, session_id, arg) ==
    IF device_id \in DOMAIN device_connections
    THEN <<Frame(device_connections[device_id], type, session_id, arg)>>
    ELSE <<>>

\* ConnectionManager.send_to_viewer
send_to_viewer(user_id, type, session_id, arg) ==
    IF user_id \in DOMAIN viewer_connections
    THEN <<Frame(viewer_connections[user_id], type, session_id, arg)>>
    ELSE <<>>

\* A registry test that answers yes for every device_id.
is_device_online_Always(device_id) == TRUE

\* ConnectionManager.is_device_online
is_device_online(device_id) == device_id \in DOMAIN device_connections

\* redis_client.hset / hdel on the presence store.
hset(store, name, field) == store \cup {<<name, field>>}
hdel(store, name, field) == store \ {<<name, field>>}

\* redis_client.delete(name), its effect on the hashes: a connected Redis
\* deletes the key whatever its type; the in-memory fallback pops the plain
\* key `name`, while hset keeps the hash under the key "hash:" + name.
delete(store, name) ==
    IF redis = None THEN store ELSE {e \in store : e[1] # name}

\* redis_client.get(key) and redis_client.delete(key) on the plain keys; the
\* values stored are response envelopes, kept as their status.
get(keys, key) == IF key \in DOMAIN keys THEN keys[key] ELSE NoRow
delete_key(keys, key) == DictDel(keys, key)

\* The methods class RedisClient defines; calling any other name on
\* redis_client raises AttributeError.
RedisClientMethods ==
    {"connect", "disconnect", "set", "get", "delete", "exists",
     "hset", "hget", "hdel", "hgetall"}

\* The hashes of the presence store: "devices:online" and f"session:{session_id}".
DevicesOnlineKey == <<"devices:online", NoRow>>
SessionKey(session_id) == <<"session", session_id>>

\* f"proxy:response:{rid}"
ProxyResponseKey(rid) == <<"proxy:response", rid>>

\* RedisClient.connect: self.redis is the connection, or None when Redis is
\* disabled or cannot be reached.
RedisModes == {"connected", None}

\* The locals of proxy_to_device when no request is being served.
NoProxy == [pc |-> "idle", device_id |-> None, rid |-> NoRow, attempt |-> NoRow,
            status |-> NoRow]

\* The locals of a watch_request handler that is not running.
NoRequest == [device |-> NoRow, device_id |-> None]

----------------------------------------------------------------------------
\* The device_id string of a session row's device.
DeviceIdOfSession(i) == devices[sessions[i].device_id].device_id

\* The registry key of a session row's viewer.
UserIdOfSession(i) == StrOfInt(sessions[i].user_id)

\* The rows of watch_sessions that reference the device / the viewer.
SessionsOfDevice(device_id) == {i \in DOMAIN sessions : DeviceIdOfSession(i) = device_id}
SessionsOfViewer(user_id) == {i \in DOMAIN sessions : UserIdOfSession(i) = user_id}

\* The REST requests that can overlap, and the locals of one that is not running.
HttpRequests == {"q1", "q2"}
NoHttp == [pc |-> "idle", op |-> None, status |-> NoRow, user_id |-> NoRow,
           row |-> NoRow, device_id |-> None, device_name |-> None,
           device_type |-> None]

\* DeviceAgent after __init__ and start(): running, not connected, connect()
\* at the top of its loop, nothing queued, no proxy task, no background task.
NewAgent == [pc |-> "dial", running |-> TRUE, state |-> "disconnected",
             reconnect_attempts |-> 0, ws |-> "none", tasks |-> FALSE,
             queue |-> <<>>, pending |-> {}, out |-> <<>>,
             delay |-> [base |-> 0, jitter |-> 0], hello_ack |-> FALSE,
             stop |-> "no"]

\* A viewer's socket before the viewer wrote anything: nothing to read, nothing
\* handled, nothing forwarded, no handler held at a send, the device reading.
NewWire == [inbox |-> <<>>, posted |-> <<>>, handled |-> <<>>, log |-> <<>>,
            blocked |-> <<>>, stalled |-> FALSE]

\* The names of the coroutines that call _send_message_safe: the two background
\* loops and the proxy tasks of two requests.
Writers == {"heartbeat", "capabilities", "proxy1", "proxy2"}

\* DeviceAgent after __init__, seen from its socket: no websocket (0), the lock
\* free, no coroutine in _send_message_safe, connect() about to dial.
NewChan == [ws |-> 0, closed |-> {}, state |-> "disconnected", lock |-> "free",
            pc |-> [w \in Writers \cup {"connect"} |-> "idle"],
            on |-> [w \in Writers \cup {"connect"} |-> 0],
            tasks |-> FALSE, cpc |-> "dial"]

Init ==
    /\ devices = [pk \in DOMAIN DeviceRows |->
                    [device_id |-> DeviceRows[pk], is_online |-> FALSE,
                     device_name |-> "cam", device_type |-> "camera",
                     last_seen |-> None]]
    /\ sessions = <<>>
    /\ device_connections = EmptyDict
    /\ viewer_connections = EmptyDict
    /\ device_heartbeats = EmptyDict
    /\ viewer_heartbeats = EmptyDict
    /\ redis_hashes = {}
    /\ redis_keys = EmptyDict
    /\ redis \in RedisModes
    /\ proxy = NoProxy
    /\ now = 0
    /\ dpc = [c \in DevConns |-> "idle"]
    /\ dlocal = [c \in DevConns |-> None]
    /\ vpc = [v \in ViewConns |-> "idle"]
    /\ vlocal = [v \in ViewConns |-> None]
    /\ vreq = [v \in ViewConns |-> NoRequest]
    /\ dsnap = [c \in DevConns |-> {}]
    /\ sent = <<>>
    /\ pairing_codes = <<>>
    /\ device_ownership = <<>>
    /\ http = [q \in HttpRequests |-> NoHttp]
    /\ agent = NewAgent
    /\ wire = NewWire
    /\ chan = NewChan

----------------------------------------------------------------------------
\* The first message a device connection can send: any type, any device_id or none.
DeviceHelloInputs ==
    [type : {"hello", "heartbeat"}, device_id : ConnectingDeviceIds \cup {None}]

\* device_websocket, from accept() to the first await inside connect_device:
\* a rejected hello is closed with 1008; an accepted one is written to the
\* registry (the websocket that was there is overwritten, not closed).
DeviceHello(c, msg) ==
    /\ dpc[c] = "idle"
    /\ IF msg.type # "hello"
       THEN /\ sent' = <<CloseFrame(c, "Expected hello message")>>
            /\ UNCHANGED <<device_connections, device_heartbeats, dpc, dlocal>>
       ELSE IF msg.device_id = None
       THEN /\ sent' = <<CloseFrame(c, "Missing device_id")>>
            /\ UNCHANGED <<device_connections, device_heartbeats, dpc, dlocal>>
       ELSE IF SelectDeviceByDeviceId(msg.device_id) = NoRow
       THEN /\ sent' = <<CloseFrame(c, "Device not found")>>
            /\ UNCHANGED <<device_connections, device_heartbeats, dpc, dlocal>>
       ELSE /\ device_connections' = DictSet(device_connections, msg.device_id, c)
            /\ device_heartbeats' = DictSet(device_heartbeats, msg.device_id, now)
            /\ dpc' = [dpc EXCEPT ![c] = "attach_store"]
            /\ dlocal' = [dlocal EXCEPT ![c] = msg.device_id]
            /\ sent' = <<>>
    /\ UNCHANGED <<devices, sessions, viewer_connections, viewer_heartbeats,
                   redis_hashes, vpc, vlocal, vreq, dsnap,
                   redis_keys, redis, proxy, now, restvars, agent, wire, chan>>

\* disconnect_device up to its first await: the registry and heartbeat entries
\* of the device_id are deleted, whichever websocket they hold.
DisconnectDeviceRegistry(c) ==
    /\ device_connections' = DictDel(device_connections, dlocal[c])
    /\ device_heartbeats' = DictDel(device_heartbeats, dlocal[c])
    /\ dpc' = [dpc EXCEPT ![c] = "detach_store"]
    /\ dsnap' = [dsnap EXCEPT ![c] =
                    {i \in SessionsOfDevice(dlocal[c]) :
                        /\ sessions[i].status = "active"
                        /\ UserIdOfSession(i) \in DOMAIN viewer_connections}]

\* connect_device from its first await on: UPDATE devices SET is_online = true,
\* commit, hset devices:online; then device_websocket sends hello_ack on its
\* own websocket and enters the message loop.  When the peer is gone the send
\* raises and the except branch starts disconnect_device.
ConnectDeviceStore(c, peer_open) ==
    /\ dpc[c] = "attach_store"
    /\ devices' = UpdateDeviceOnline(dlocal[c], TRUE)
    /\ redis_hashes' = hset(redis_hashes, DevicesOnlineKey, dlocal[c])
    /\ IF peer_open
       THEN /\ sent' = <<Frame(c, "hello_ack", NoRow, dlocal[c])>>
            /\ dpc' = [dpc EXCEPT ![c] = "loop"]
            /\ UNCHANGED <<device_connections, device_heartbeats, dsnap>>
       ELSE /\ sent' = <<>>
            /\ DisconnectDeviceRegistry(c)
    /\ UNCHANGED <<sessions, viewer_connections, viewer_heartbeats,
                   dlocal, vpc, vlocal, vreq,
                   redis_keys, redis, proxy, now, restvars, agent, wire, chan>>

\* device_websocket: receive_json raises WebSocketDisconnect in the message loop.
DeviceDisconnect(c) ==
    /\ dpc[c] = "loop"
    /\ DisconnectDeviceRegistry(c)
    /\ sent' = <<>>
    /\ UNCHANGED <<devices, sessions, viewer_connections, viewer_heartbeats,
                   redis_hashes, dlocal, vpc, vlocal, vreq,
                   redis_keys, redis, proxy, now, restvars, agent, wire, chan>>

\* disconnect_device from its first await to the session query: UPDATE devices
\* SET is_online = false, commit, hdel devices:online.
DisconnectDeviceStore(c) ==
    /\ dpc[c] = "detach_store"
    /\ devices' = UpdateDeviceOnline(dlocal[c], FALSE)
    /\ redis_hashes' = hdel(redis_hashes, DevicesOnlineKey, dlocal[c])
    /\ dpc' = [dpc EXCEPT ![c] = "detach_sessions"]
    /\ sent' = <<>>
    /\ UNCHANGED <<sessions, device_connections, viewer_connections,
                   device_heartbeats, viewer_heartbeats,
                   dlocal, vpc, vlocal, vreq, dsnap,
                   redis_keys, redis, proxy, now, restvars, agent, wire, chan>>

\* The rows disconnect_device selects: device_id equal to the scalar subquery
\* select(Device.id).where(Device.device_id == device_id), and status "active".
DeviceSessionsToEnd(device_id) ==
    {i \in DOMAIN sessions :
        /\ sessions[i].device_id = SelectDeviceByDeviceId(device_id)
        /\ sessions[i].status = "active"}

\* A loop body that ends the row but records no reason.
EndSession_NoReason(row, reason) ==
    [row EXCEPT !.status = "ended", !.ended_at = utcnow]

\* The loop body of both fanouts: the row is ended with the reason.
EndSession(row, reason) ==
    [row EXCEPT !.status = "ended", !.ended_at = utcnow, !.ended_reason = reason]

\* Concatenation of the frames f[i] for i in the set S, in row order.
RECURSIVE FramesOver(_, _)
FramesOver(S, f) ==
    IF S = {} THEN <<>>
    ELSE LET i == CHOOSE x \in S : \A y \in S : x <= y
         IN f[i] \o FramesOver(S \ {i}, f)

\* disconnect_device, the session fanout: every selected row is ended with
\* device_disconnected and its viewer, when in the registry, is sent watch_ended.
DisconnectDeviceSessions(c) ==
    /\ dpc[c] = "detach_sessions"
    /\ LET ending == DeviceSessionsToEnd(dlocal[c])
       IN /\ sessions' = [i \in DOMAIN sessions |->
                            IF i \in ending
                            THEN EndSession(sessions[i], "device_disconnected")
                            ELSE sessions[i]]
          /\ sent' = FramesOver(ending,
                        [i \in ending |->
                            send_to_viewer(StrOfInt(sessions[i].user_id), "watch_ended",
                                           sessions[i].session_id, "device_disconnected")])
    /\ dpc' = [dpc EXCEPT ![c] = "idle"]
    /\ dlocal' = [dlocal EXCEPT ![c] = None]
    /\ dsnap' = [dsnap EXCEPT ![c] = {}]
    /\ UNCHANGED <<devices, device_connections, viewer_connections,
                   device_heartbeats, viewer_heartbeats, redis_hashes,
                   vpc, vlocal, vreq,
                   redis_keys, redis, proxy, now, restvars, agent, wire, chan>>

----------------------------------------------------------------------------
\* The first message a viewer connection can send: any type, any token or none.
ViewerHelloInputs == [type : {"hello", "heartbeat"}, token : Tokens \cup {None}]

\* disconnect_viewer up to its first await.
DisconnectViewerRegistry(v, user_id) ==
    /\ viewer_connections' = DictDel(viewer_connections, user_id)
    /\ viewer_heartbeats' = DictDel(viewer_heartbeats, user_id)
    /\ vpc' = [vpc EXCEPT ![v] = "detach_sessions"]

\* viewer_websocket, from accept() to the message loop: a rejected hello is
\* closed with 1008; an accepted one is written to the registry by
\* connect_viewer (which has no await) and hello_ack is sent on the websocket.
\* When the peer is gone the send raises and disconnect_viewer starts.
ViewerHello(v, msg, peer_open) ==
    /\ vpc[v] = "idle"
    /\ IF msg.type # "hello"
       THEN /\ sent' = <<CloseFrame(v, "Expected hello message")>>
            /\ UNCHANGED <<viewer_connections, viewer_heartbeats, vpc, vlocal>>
       ELSE IF msg.token = None
       THEN /\ sent' = <<CloseFrame(v, "Missing token")>>
            /\ UNCHANGED <<viewer_connections, viewer_heartbeats, vpc, vlocal>>
       ELSE IF get_current_user(msg.token) = NoRow
       THEN /\ sent' = <<CloseFrame(v, "Invalid token")>>
            /\ UNCHANGED <<viewer_connections, viewer_heartbeats, vpc, vlocal>>
       ELSE LET user_id == StrOfInt(get_current_user(msg.token))
            IN /\ vlocal' = [vlocal EXCEPT ![v] = user_id]
               /\ IF peer_open
                  THEN /\ viewer_connections' = DictSet(viewer_connections, user_id, v)
                       /\ viewer_heartbeats' = DictSet(viewer_heartbeats, user_id, now)
                       /\ vpc' = [vpc EXCEPT ![v] = "loop"]
                       /\ sent' = <<Frame(v, "hello_ack", NoRow, user_id)>>
                  ELSE /\ DisconnectViewerRegistry(v, user_id)
                       /\ sent' = <<>>
    /\ UNCHANGED <<devices, sessions, device_connections, device_heartbeats,
                   redis_hashes, dpc, dlocal, vreq, dsnap,
                   redis_keys, redis, proxy, now, restvars, agent, wire, chan>>

\* viewer_websocket: receive_json raises WebSocketDisconnect in the message loop.
ViewerDisconnect(v) ==
    /\ vpc[v] = "loop"
    /\ DisconnectViewerRegistry(v, vlocal[v])
    /\ sent' = <<>>
    /\ UNCHANGED <<devices, sessions, device_connections, device_heartbeats,
                   redis_hashes, dpc, dlocal, vlocal, vreq, dsnap,
                   redis_keys, redis, proxy, now, restvars, agent, wire, chan>>

\* The rows disconnect_viewer selects: user_id == int(user_id), status "active".
ViewerSessionsToEnd(user_id) ==
    {i \in DOMAIN sessions :
        /\ sessions[i].user_id = IntOfStr(user_id)
        /\ sessions[i].status = "active"}

\* disconnect_viewer, the session fanout: every selected row is ended with
\* viewer_disconnected and its device, when the row exists, is sent watch_ended.
DisconnectViewerSessions(v) ==
    /\ vpc[v] = "detach_sessions"
    /\ LET ending == ViewerSessionsToEnd(vlocal[v])
       IN /\ sessions' = [i \in DOMAIN sessions |->
                            IF i \in ending
                            THEN EndSession(sessions[i], "viewer_disconnected")
                            ELSE sessions[i]]
          /\ sent' = FramesOver(ending,
                        [i \in ending |->
                            LET device == SelectDeviceById(sessions[i].device_id)
                            IN IF device # NoRow
                               THEN send_to_device(devices[device].device_id, "watch_ended",
                                        sessions[i].session_id, "viewer_disconnected")
                               ELSE <<>>])
    /\ vpc' = [vpc EXCEPT ![v] = "idle"]
    /\ vlocal' = [vlocal EXCEPT ![v] = None]
    /\ UNCHANGED <<devices, device_connections, viewer_connections,
                   device_heartbeats, viewer_heartbeats, redis_hashes,
                   dpc, dlocal, vreq, dsnap,
                   redis_keys, redis, proxy, now, restvars, agent, wire, chan>>

\* The watch_request handlers that passed the online check and have not committed.
WatchRequestsInFlight == Cardinality({v \in ViewConns : vpc[v] = "watch_commit"})

\* handle_viewer_message(watch_request) up to db.commit(): the device row is
\* selected and the registry is asked whether the device is online.
WatchRequest(v, device_id) ==
    /\ vpc[v] = "loop"
    /\ Len(sessions) + WatchRequestsInFlight < MaxSessions
    /\ LET device == SelectDeviceByDeviceId(device_id)
       IN IF device = NoRow
          THEN /\ sent' = send_to_viewer(vlocal[v], "error", NoRow, "Device not found")
               /\ UNCHANGED <<vpc, vreq>>
          ELSE IF ~is_device_online(device_id)
          THEN /\ sent' = send_to_viewer(vlocal[v], "error", NoRow, "Device is offline")
               /\ UNCHANGED <<vpc, vreq>>
          ELSE /\ vpc' = [vpc EXCEPT ![v] = "watch_commit"]
               /\ vreq' = [vreq EXCEPT ![v] = [device |-> device, device_id |-> device_id]]
               /\ sent' = <<>>
    /\ UNCHANGED <<devices, sessions, device_connections, viewer_connections,
                   device_heartbeats, viewer_heartbeats, redis_hashes,
                   dpc, dlocal, vlocal, dsnap,
                   redis_keys, redis, proxy, now, restvars, agent, wire, chan>>

\* uuid.uuid4(): a session_id no row has.
NewSessionId == Len(sessions) + 1

\* handle_viewer_message(watch_request) from db.commit() on: the pending row is
\* inserted, session:{id} is written to the presence store, watch_ready goes
\* to the viewer and watch_request to the device, both through the registry.
WatchRequestCommit(v) ==
    /\ vpc[v] = "watch_commit"
    /\ LET session_id == NewSessionId
       IN /\ sessions' = Append(sessions,
                [session_id |-> session_id, user_id |-> IntOfStr(vlocal[v]),
                 device_id |-> vreq[v].device, status |-> "pending",
                 ended_at |-> None, ended_reason |-> None])
          /\ redis_hashes' = hset(redis_hashes, SessionKey(session_id), "data")
          /\ sent' = send_to_viewer(vlocal[v], "watch_ready", session_id, None)
                     \o send_to_device(vreq[v].device_id, "watch_request",
                                       session_id, vlocal[v])
    /\ vpc' = [vpc EXCEPT ![v] = "loop"]
    /\ vreq' = [vreq EXCEPT ![v] = NoRequest]
    /\ UNCHANGED <<devices, device_connections, viewer_connections,
                   device_heartbeats, viewer_heartbeats, dpc, dlocal, vlocal, dsnap,
                   redis_keys, redis, proxy, now, restvars, agent, wire, chan>>

\* handle_viewer_message(signal_offer): the row, when found, is set to active
\* whatever its status, and the offer is forwarded to the row's device.
SignalOffer(v, session_id, sdp) ==
    /\ vpc[v] = "loop"
    /\ LET session == SelectSession(session_id)
       IN IF session # NoRow
          THEN /\ sessions' = [sessions EXCEPT ![session].status = "active"]
               /\ LET device == SelectDeviceById(sessions[session].device_id)
                  IN sent' = IF device # NoRow
                             THEN send_to_device(devices[device].device_id,
                                                 "signal_offer", session_id, sdp)
                             ELSE <<>>
          ELSE /\ sent' = <<>>
               /\ UNCHANGED sessions
    /\ UNCHANGED <<devices, device_connections, viewer_connections,
                   device_heartbeats, viewer_heartbeats, redis_hashes,
                   dpc, dlocal, vpc, vlocal, vreq, dsnap,
                   redis_keys, redis, proxy, now, restvars, agent, wire, chan>>

\* handle_viewer_message(end_watch): the row, when found, is set to ended with
\* user_ended whatever its status, watch_ended goes to the row's device and
\* session:{id} is deleted from the presence store.
EndWatch(v, session_id) ==
    /\ vpc[v] = "loop"
    /\ LET session == SelectSession(session_id)
       IN IF session # NoRow
          THEN /\ sessions' = [sessions EXCEPT
                                  ![session] = EndSession(sessions[session], "user_ended")]
               /\ LET device == SelectDeviceById(sessions[session].device_id)
                  IN sent' = IF device # NoRow
                             THEN send_to_device(devices[device].device_id,
                                                 "watch_ended", session_id, "user_ended")
                             ELSE <<>>
               /\ redis_hashes' = delete(redis_hashes, SessionKey(session_id))
          ELSE /\ sent' = <<>>
               /\ UNCHANGED <<sessions, redis_hashes>>
    /\ UNCHANGED <<devices, device_connections, viewer_connections,
                   device_heartbeats, viewer_heartbeats,
                   dpc, dlocal, vpc, vlocal, vreq, dsnap,
                   redis_keys, redis, proxy, now, restvars, agent, wire, chan>>

\* handle_viewer_message(signal_ice): the candidate is forwarded to the device
\* of the row, when the row is found, whatever its status.
ViewerSignalIce(v, session_id, candidate) ==
    /\ vpc[v] = "loop"
    /\ LET session == SelectSession(session_id)
           device == IF session # NoRow
                     THEN SelectDeviceById(sessions[session].device_id)
                     ELSE NoRow
       IN sent' = IF device # NoRow
                  THEN send_to_device(devices[device].device_id,
                                      "signal_ice", session_id, candidate)
                  ELSE <<>>
    /\ UNCHANGED <<devices, sessions, device_connections, viewer_connections,
                   device_heartbeats, viewer_heartbeats, redis_hashes,
                   redis_keys, redis, proxy, now, dpc, dlocal, vpc, vlocal, vreq, dsnap, restvars, agent, wire, chan>>

\* handle_device_message(signal_answer) and (signal_ice): the payload is
\* forwarded to the viewer of the row, when the row is found; neither the
\* row's status nor its device is looked at.
DeviceSignal(c, type, session_id, value) ==
    /\ dpc[c] = "loop"
    /\ LET session == SelectSession(session_id)
       IN sent' = IF session # NoRow
                  THEN send_to_viewer(StrOfInt(sessions[session].user_id),
                                      type, session_id, value)
                  ELSE <<>>
    /\ UNCHANGED <<devices, sessions, device_connections, viewer_connections,
                   device_heartbeats, viewer_heartbeats, redis_hashes,
                   redis_keys, redis, proxy, now, dpc, dlocal, vpc, vlocal, vreq, dsnap, restvars, agent, wire, chan>>

\* ConnectionManager.update_heartbeat, its two branches.
update_heartbeat_device(identifier) ==
    /\ device_heartbeats' = DictSet(device_heartbeats, identifier, now)
    /\ redis_hashes' = hset(redis_hashes, DevicesOnlineKey, identifier)
\* A heartbeat that leaves the viewer's entry as it was.
update_heartbeat_viewer_Skip(identifier) ==
    UNCHANGED viewer_heartbeats

update_heartbeat_viewer(identifier) ==
    viewer_heartbeats' = DictSet(viewer_heartbeats, identifier, now)

\* handle_device_message(heartbeat), taken as one step: the heartbeat entry and
\* the presence entry of the handler's device_id are written, and heartbeat_ack
\* with the message's request_id goes to the device_id's registry channel.
DeviceHeartbeat(c, request_id) ==
    /\ dpc[c] = "loop"
    /\ update_heartbeat_device(dlocal[c])
    /\ sent' = send_to_device(dlocal[c], "heartbeat_ack", NoRow, request_id)
    /\ UNCHANGED <<devices, sessions, device_connections, viewer_connections,
                   viewer_heartbeats, redis_keys, redis, proxy, now,
                   dpc, dlocal, vpc, vlocal, vreq, dsnap, restvars, agent, wire, chan>>

\* handle_viewer_message(heartbeat)
ViewerHeartbeat(v, request_id) ==
    /\ vpc[v] = "loop"
    /\ update_heartbeat_viewer(vlocal[v])
    /\ sent' = send_to_viewer(vlocal[v], "heartbeat_ack", NoRow, request_id)
    /\ UNCHANGED <<devices, sessions, device_connections, viewer_connections,
                   device_heartbeats, redis_hashes, redis_keys, redis, proxy, now,
                   dpc, dlocal, vpc, vlocal, vreq, dsnap, restvars, agent, wire, chan>>

\* The signalling messages of a device and the payload values each carries.
DeviceSignalTypes == {"signal_answer", "signal_ice"}
SignalValues(type) == IF type = "signal_ice" THEN CandidateValues ELSE SdpValues

\* The session_id values the messages of the environment name: those a row can
\* have and one that no row has.
SessionIds == 1 .. MaxSessions
UnknownSessionId == MaxSessions + 1
NamedSessionIds == SessionIds \cup {UnknownSessionId}

Next ==
    \/ \E c \in DevConns, msg \in DeviceHelloInputs : DeviceHello(c, msg)
    \/ \E c \in DevConns, peer_open \in BOOLEAN : ConnectDeviceStore(c, peer_open)
    \/ \E c \in DevConns : DeviceDisconnect(c)
    \/ \E c \in DevConns : DisconnectDeviceStore(c)
    \/ \E c \in DevConns : DisconnectDeviceSessions(c)
    \/ \E v \in ViewConns, msg \in ViewerHelloInputs, peer_open \in BOOLEAN :
            ViewerHello(v, msg, peer_open)
    \/ \E v \in ViewConns : ViewerDisconnect(v)
    \/ \E v \in ViewConns : DisconnectViewerSessions(v)
    \/ \E v \in ViewConns, device_id \in DeviceIds \cup {None} : WatchRequest(v, device_id)
    \/ \E v \in ViewConns : WatchRequestCommit(v)
    \/ \E v \in ViewConns, session_id \in NamedSessionIds, sdp \in SdpValues :
            SignalOffer(v, session_id, sdp)
    \/ \E v \in ViewConns, session_id \in NamedSessionIds : EndWatch(v, session_id)
    \/ \E v \in ViewConns, session_id \in NamedSessionIds, candidate \in CandidateValues :
            ViewerSignalIce(v, session_id, candidate)
    \/ \E c \in DevConns, type \in DeviceSignalTypes, session_id \in NamedSessionIds :
            \E value \in SignalValues(type) : DeviceSignal(c, type, session_id, value)

Spec == Init /\ [][Next]_vars

----------------------------------------------------------------------------
\* Presence: the connection handlers with the heartbeats, no watch session.
\* settings.PAIRING_CODE_TTL and settings.WS_HEARTBEAT_TIMEOUT, in seconds.
PAIRING_CODE_TTL == 300
WS_HEARTBEAT_TIMEOUT == 90

\* The clock passes d seconds at once.
Elapse(d) ==
    /\ now < MaxTime
    /\ now' = now + d
    /\ sent' = <<>>
    /\ UNCHANGED <<devices, hubvars, restvars, agent, wire, chan>>

PresenceNext ==
    \/ \E c \in DevConns, msg \in DeviceHelloInputs : DeviceHello(c, msg)
    \/ \E c \in DevConns, peer_open \in BOOLEAN : ConnectDeviceStore(c, peer_open)
    \/ \E c \in DevConns : DeviceDisconnect(c)
    \/ \E c \in DevConns : DisconnectDeviceStore(c)
    \/ \E c \in DevConns : DisconnectDeviceSessions(c)
    \/ \E v \in ViewConns, msg \in ViewerHelloInputs, peer_open \in BOOLEAN :
            ViewerHello(v, msg, peer_open)
    \/ \E v \in ViewConns : ViewerDisconnect(v)
    \/ \E v \in ViewConns : DisconnectViewerSessions(v)
    \/ \E c \in DevConns, request_id \in RequestIds : DeviceHeartbeat(c, request_id)
    \/ \E v \in ViewConns, request_id \in RequestIds : ViewerHeartbeat(v, request_id)
    \/ Elapse(WS_HEARTBEAT_TIMEOUT + 1)

\* The steps the hub takes by itself: the handlers' continuations after an await.
PresenceHub ==
    \/ \E c \in DevConns, peer_open \in BOOLEAN : ConnectDeviceStore(c, peer_open)
    \/ \E c \in DevConns : DisconnectDeviceStore(c)
    \/ \E c \in DevConns : DisconnectDeviceSessions(c)
    \/ \E v \in ViewConns : DisconnectViewerSessions(v)

\* The event loop resumes every handler that waits at an await; the peers and
\* the clock are not bound to anything.
PresenceSpec == Init /\ [][PresenceNext]_vars /\ WF_vars(PresenceHub)

----------------------------------------------------------------------------
\* The HTTP proxy: proxy_to_device and the device's proxy_http_resp.

\* proxy_to_device up to the polling loop: 503 when the registry has no
\* channel for the device_id; otherwise a new rid is drawn and the proxy_http
\* envelope is sent to the device.
ProxyRequest(device_id) ==
    /\ proxy.pc \in {"idle", "done"}
    /\ proxy.rid < MaxRequests
    /\ IF ~ is_device_online(device_id)
       THEN /\ proxy' = [pc |-> "done", device_id |-> device_id, rid |-> proxy.rid,
                         attempt |-> 0, status |-> DeviceOffline]
            /\ sent' = <<>>
       ELSE LET rid == proxy.rid + 1
            IN /\ proxy' = [pc |-> "polling", device_id |-> device_id, rid |-> rid,
                            attempt |-> 0, status |-> NoRow]
               /\ sent' = send_to_device(device_id, "proxy_http", NoRow, StrOfInt(rid))
    /\ UNCHANGED <<devices, sessions, device_connections, viewer_connections,
                   device_heartbeats, viewer_heartbeats, redis_hashes, redis_keys,
                   redis, now, dpc, dlocal, vpc, vlocal, vreq, dsnap, restvars, agent, wire, chan>>

\* A polling loop that never reaches its deadline.
ProxyPoll_NoDeadline ==
    /\ proxy.pc = "polling"
    /\ proxy' = [proxy EXCEPT !.attempt = (proxy.attempt + 1) % PollAttempts]
    /\ sent' = <<>>
    /\ UNCHANGED <<devices, sessions, device_connections, viewer_connections,
                   device_heartbeats, viewer_heartbeats, redis_hashes, redis_keys,
                   redis, now, dpc, dlocal, vpc, vlocal, vreq, dsnap, restvars, agent, wire, chan>>

\* proxy_to_device, one iteration of its polling loop: the envelope stored
\* under proxy:response:{rid}, when there is one, is deleted and returned with
\* its status; otherwise the loop sleeps, and after the last of the
\* PollAttempts iterations 504 is raised.
ProxyPoll ==
    /\ proxy.pc = "polling"
    /\ LET resp_json == get(redis_keys, ProxyResponseKey(proxy.rid))
       IN IF resp_json # NoRow
          THEN /\ redis_keys' = delete_key(redis_keys, ProxyResponseKey(proxy.rid))
               /\ proxy' = [proxy EXCEPT !.pc = "done", !.status = resp_json]
          ELSE /\ UNCHANGED redis_keys
               /\ proxy' = IF proxy.attempt + 1 < PollAttempts
                           THEN [proxy EXCEPT !.attempt = proxy.attempt + 1]
                           ELSE [proxy EXCEPT !.attempt = PollAttempts, !.pc = "done",
                                              !.status = ProxyTimeout]
    /\ sent' = <<>>
    /\ UNCHANGED <<devices, sessions, device_connections, viewer_connections,
                   device_heartbeats, viewer_heartbeats, redis_hashes,
                   redis, now, dpc, dlocal, vpc, vlocal, vreq, dsnap, restvars, agent, wire, chan>>

\* handle_device_message(proxy_http_resp): with a rid the handler calls
\* redis_client.setex, which RedisClient does not define; the AttributeError
\* leaves handle_device_message and the message loop, and device_websocket's
\* `except Exception` starts disconnect_device.  Without a rid nothing is done.
ProxyHttpResp(c, rid, status) ==
    /\ dpc[c] = "loop"
    /\ sent' = <<>>
    /\ IF rid = NoRow
       THEN UNCHANGED <<redis_keys, device_connections, device_heartbeats, dpc, dsnap>>
       ELSE IF "setex" \in RedisClientMethods
       THEN /\ redis_keys' = DictSet(redis_keys, ProxyResponseKey(rid), status)
            /\ UNCHANGED <<device_connections, device_heartbeats, dpc, dsnap>>
       ELSE /\ DisconnectDeviceRegistry(c)
            /\ UNCHANGED redis_keys
    /\ UNCHANGED <<devices, sessions, viewer_connections, viewer_heartbeats,
                   redis_hashes, redis, proxy, now, dlocal, vpc, vlocal, vreq, restvars, agent, wire, chan>>

\* The rid values a device's proxy_http_resp can name: none, or any rid drawn.
NamedRids == 0 .. MaxRequests

ProxyNext ==
    \/ \E c \in DevConns, msg \in DeviceHelloInputs : DeviceHello(c, msg)
    \/ \E c \in DevConns, peer_open \in BOOLEAN : ConnectDeviceStore(c, peer_open)
    \/ \E c \in DevConns : DeviceDisconnect(c)
    \/ \E c \in DevConns : DisconnectDeviceStore(c)
    \/ \E c \in DevConns : DisconnectDeviceSessions(c)
    \/ \E device_id \in DeviceIds : ProxyRequest(device_id)
    \/ ProxyPoll
    \/ \E c \in DevConns, rid \in NamedRids, status \in ResponseStatuses :
            ProxyHttpResp(c, rid, status)

\* The event loop resumes the polling coroutine after each sleep.
ProxySpec == Init /\ [][ProxyNext]_vars /\ WF_vars(ProxyPoll)

-----------------------------------------------------------------------------
\* The REST endpoints of device registration and pairing.  A handler that reads
\* the database and commits later is cut at the await between the two, where
\* another request can run.

\* The bearer tokens of the two viewers, and a token that decodes to nothing.
PairTokens == {"tok1", "tok2", "bad"}

\* The device ids a registration names (one in the table, one new), and the
\* name and type it carries; the name is not the one the table has.
RegisterDeviceIds == {"D1", "D3"}
DeviceNames == {"door"}
DeviceTypes == {"camera"}

\* The pairing codes that POST /api/pairing/generate has to draw from, and the
\* codes a redemption can name; the last is one that was never generated.
MaxCodes == 2
NamedCodes == 1 .. MaxCodes + 1

\* A request slot is free when no handler runs in it.
HttpFree(q) == http[q].pc \in {"idle", "done"}

\* The slots after request q has come to the locals given; a response that was
\* delivered before is gone from its slot.
HttpStep(q, locals) ==
    [r \in HttpRequests |-> IF r = q THEN locals
                            ELSE IF http[r].pc = "done" THEN NoHttp
                            ELSE http[r]]

\* The response of a handler that has returned or raised.
HttpDone(q, op, status) ==
    HttpStep(q, [NoHttp EXCEPT !.pc = "done", !.op = op, !.status = status])

\* POST /api/pairing/generate: a code no row carries, valid for PAIRING_CODE_TTL.
GeneratePairingCode(q, device_id) ==
    /\ HttpFree(q)
    /\ Len(pairing_codes) < MaxCodes
    /\ sent' = <<>>
    /\ LET device == SelectDeviceByDeviceId(device_id)
       IN IF device = NoRow
          THEN /\ http' = HttpDone(q, "generate", 404)
               /\ UNCHANGED pairing_codes
          ELSE /\ pairing_codes' = Append(pairing_codes,
                     [code |-> Len(pairing_codes) + 1, device_id |-> device,
                      is_used |-> FALSE, expires_at |-> now + PAIRING_CODE_TTL])
               /\ http' = HttpDone(q, "generate", 200)
    /\ UNCHANGED <<devices, hubvars, now, device_ownership, agent, wire, chan>>

\* The WHERE clause of pair_device, with its is_used test left out.
ValidPairingCode_AnyUse(row, code) ==
    /\ pairing_codes[row].code = code
    /\ pairing_codes[row].expires_at > now

\* The WHERE clause of pair_device: the code, unused, not yet expired.
ValidPairingCode(row, code) ==
    /\ pairing_codes[row].code = code
    /\ pairing_codes[row].is_used = FALSE
    /\ pairing_codes[row].expires_at > now

\* select(PairingCode).where(...): the row found, or NoRow.
SelectPairingCode(code) ==
    IF \E row \in DOMAIN pairing_codes : ValidPairingCode(row, code)
    THEN CHOOSE row \in DOMAIN pairing_codes : ValidPairingCode(row, code)
    ELSE NoRow

\* POST /api/devices/pair up to its commit: 401 without a user, 404 without a
\* valid code, else the handler holds the row it read.
PairSelect(q, token, code) ==
    /\ HttpFree(q)
    /\ sent' = <<>>
    /\ LET user == get_current_user(token)
           pairing_code == SelectPairingCode(code)
       IN http' = IF user = NoRow THEN HttpDone(q, "pair", 401)
                  ELSE IF pairing_code = NoRow THEN HttpDone(q, "pair", 404)
                  ELSE HttpStep(q, [NoHttp EXCEPT !.pc = "pair_commit",
                                                  !.op = "pair",
                                                  !.user_id = user,
                                                  !.row = pairing_code])
    /\ UNCHANGED <<devices, hubvars, now, pairing_codes, device_ownership, agent, wire, chan>>

\* POST /api/devices/pair from its commit on: the row it read is marked used and
\* one ownership row is inserted, whatever happened to the code in between.
PairCommit(q) ==
    /\ http[q].pc = "pair_commit"
    /\ sent' = <<>>
    /\ pairing_codes' = [pairing_codes EXCEPT ![http[q].row].is_used = TRUE]
    /\ device_ownership' = Append(device_ownership,
           [user_id |-> http[q].user_id,
            device_id |-> pairing_codes[http[q].row].device_id,
            role |-> "owner"])
    /\ http' = HttpDone(q, "pair", 200)
    /\ UNCHANGED <<devices, hubvars, now, agent, wire, chan>>

\* POST /api/devices/register up to its commit: a known device_id is answered
\* 200 at once, with no write.
RegisterSelect(q, device_id, device_name, device_type) ==
    /\ HttpFree(q)
    /\ sent' = <<>>
    /\ http' = IF SelectDeviceByDeviceId(device_id) # NoRow
               THEN HttpDone(q, "register", 200)
               ELSE HttpStep(q, [NoHttp EXCEPT !.pc = "register_commit",
                                               !.op = "register",
                                               !.device_id = device_id,
                                               !.device_name = device_name,
                                               !.device_type = device_type])
    /\ UNCHANGED <<devices, hubvars, now, pairing_codes, device_ownership, agent, wire, chan>>

\* POST /api/devices/register from its commit on: the INSERT; devices.device_id
\* is unique, so a row inserted in between makes the commit raise (500).
RegisterCommit(q) ==
    /\ http[q].pc = "register_commit"
    /\ sent' = <<>>
    /\ IF SelectDeviceByDeviceId(http[q].device_id) # NoRow
       THEN /\ http' = HttpDone(q, "register", 500)
            /\ UNCHANGED devices
       ELSE /\ devices' = Append(devices,
                    [device_id |-> http[q].device_id, is_online |-> FALSE,
                     device_name |-> http[q].device_name,
                     device_type |-> http[q].device_type, last_seen |-> None])
            /\ http' = HttpDone(q, "register", 200)
    /\ UNCHANGED <<hubvars, now, pairing_codes, device_ownership, agent, wire, chan>>

RestNext ==
    \/ \E q \in HttpRequests, device_id \in ConnectingDeviceIds :
          GeneratePairingCode(q, device_id)
    \/ \E q \in HttpRequests, token \in PairTokens, code \in NamedCodes :
          PairSelect(q, token, code)
    \/ \E q \in HttpRequests : PairCommit(q)
    \/ \E q \in HttpRequests, device_id \in RegisterDeviceIds,
          device_name \in DeviceNames, device_type \in DeviceTypes :
          RegisterSelect(q, device_id, device_name, device_type)
    \/ \E q \in HttpRequests : RegisterCommit(q)
    \/ Elapse(PAIRING_CODE_TTL)

\* The REST endpoints alone: registration, code generation and redemption.
RestSpec == Init /\ [][RestNext]_vars

-----------------------------------------------------------------------------
\* The device agent.  connect() is cut at its awaits: the dial, the hello, each
\* turn of the flush loop, the message loop, _handle_disconnect and the sleep.
\* The hub, the local service and the timers are its environment.

\* The attempts the counter is followed for, and the queued responses kept.
MaxAttempts == 7
MaxQueue == 2

\* reconnect_base and max_reconnect_delay, in seconds.
reconnect_base == 1
max_reconnect_delay == 30

\* random.uniform(0, 1), in tenths of a second: a value in [0, 1).
Jitters == {0, 5, 9}

\* The outcomes of the call to the local service: a response with its status,
\* asyncio.TimeoutError, any other exception.
LocalStatuses == {200}
LocalOutcomes == {[kind |-> "response", status |-> st] : st \in LocalStatuses}
                 \cup {[kind |-> "timeout", status |-> NoRow],
                       [kind |-> "error", status |-> NoRow]}

\* The envelopes the agent writes.
AgentMessage(type, rid, status) == [type |-> type, rid |-> rid, status |-> status]
HelloMessage == AgentMessage("hello", None, NoRow)

\* The status of the proxy_http_resp, with a timeout answered as any failure.
ProxyStatus_NoTimeout(outcome) ==
    IF outcome.kind = "response" THEN outcome.status ELSE 500

\* The status of the proxy_http_resp for an outcome of the local call.
ProxyStatus(outcome) ==
    IF outcome.kind = "timeout" THEN 504
    ELSE IF outcome.kind = "error" THEN 500
    ELSE outcome.status

\* min(reconnect_base * 2 ** (n - 1), max_reconnect_delay), without the min.
ReconnectDelay_NoCap(n) == reconnect_base * 2 ^ (n - 1)

\* min(reconnect_base * 2 ** (n - 1), max_reconnect_delay)
ReconnectDelay(n) ==
    IF reconnect_base * 2 ^ (n - 1) < max_reconnect_delay
    THEN reconnect_base * 2 ^ (n - 1)
    ELSE max_reconnect_delay

\* The agent can write: a socket that is not closed, in state CONNECTED.
CanSend(a) == a.ws = "open" /\ a.state = "connected"

\* _send_message_safe, queueing whatever it cannot write.
send_message_safe_QueueAll(a, message, ok) ==
    IF CanSend(a)
    THEN [a EXCEPT !.out = IF ok THEN <<message>> ELSE <<>>]
    ELSE [a EXCEPT !.out = <<>>, !.queue = Append(a.queue, message)]

\* _send_message_safe: the write (ok tells whether ws.send returned or raised),
\* or else the drop of a heartbeat or capabilities and the queueing of the rest.
send_message_safe(a, message, ok) ==
    IF CanSend(a)
    THEN [a EXCEPT !.out = IF ok THEN <<message>> ELSE <<>>]
    ELSE IF message.type \in {"heartbeat", "capabilities"}
    THEN [a EXCEPT !.out = <<>>]
    ELSE [a EXCEPT !.out = <<>>, !.queue = Append(a.queue, message)]

\* What an agent step leaves alone.
AgentFrame == /\ sent' = <<>>
              /\ UNCHANGED <<devices, hubvars, now, restvars, wire, chan>>

\* connect(): the top of its loop.  While the agent runs and is not STOPPING
\* the state is CONNECTING and the dial begins; else connect() returns.
AgentDialStart ==
    /\ agent.pc = "dial"
    /\ agent' = IF agent.running /\ agent.state # "stopping"
                THEN [agent EXCEPT !.state = "connecting", !.out = <<>>,
                                   !.pc = "dialing"]
                ELSE [agent EXCEPT !.out = <<>>, !.pc = "exited"]
    /\ AgentFrame

\* connect(): the dial ends.  It returns a socket, or times out or is refused.
AgentDial(ok) ==
    /\ agent.pc = "dialing"
    /\ agent' = IF ok
                THEN [agent EXCEPT !.ws = "open", !.hello_ack = FALSE,
                                   !.out = <<>>, !.pc = "hello"]
                ELSE [agent EXCEPT !.out = <<>>, !.pc = "disconnect"]
    /\ AgentFrame

\* connect(): the hello is written, and with it the agent is CONNECTED, its
\* counter is zero and its background tasks run; a closed socket raises.
AgentHello ==
    /\ agent.pc = "hello"
    /\ agent' = IF agent.ws = "open"
                THEN [agent EXCEPT !.out = <<HelloMessage>>,
                                   !.state = "connected",
                                   !.reconnect_attempts = 0,
                                   !.tasks = TRUE,
                                   !.pc = "flush"]
                ELSE [agent EXCEPT !.out = <<>>, !.pc = "disconnect"]
    /\ AgentFrame

\* _flush_message_queue: one turn of its loop takes the head of the queue and
\* hands it to _send_message_safe; the loop ends when the queue is empty.
AgentFlush(ok) ==
    /\ agent.pc = "flush"
    /\ agent' = IF agent.queue = <<>>
                THEN [agent EXCEPT !.out = <<>>, !.pc = "loop"]
                ELSE send_message_safe([agent EXCEPT !.queue = Tail(agent.queue)],
                                       Head(agent.queue), ok)
    /\ AgentFrame

\* The envelopes the hub sends to the agent.
HubMessageTypes == {"hello_ack", "heartbeat_ack", "proxy_http", "other"}

\* message_loop and _handle_message: hello_ack and heartbeat_ack are logged, a
\* proxy_http starts a task, kept by its rid.
AgentReceive(type, rid) ==
    /\ agent.pc = "loop"
    /\ agent.ws = "open"
    /\ agent' = CASE type = "hello_ack" -> [agent EXCEPT !.out = <<>>,
                                                         !.hello_ack = TRUE]
                  [] type = "proxy_http" -> [agent EXCEPT !.out = <<>>,
                                              !.pending = agent.pending \cup {rid}]
                  [] OTHER -> [agent EXCEPT !.out = <<>>]
    /\ AgentFrame

\* The hub, or the network, closes the agent's socket.
HubClose ==
    /\ agent.ws = "open"
    /\ agent' = [agent EXCEPT !.ws = "closed", !.out = <<>>]
    /\ AgentFrame

\* message_loop returns when the socket is closed; connect() goes on to its
\* backoff without _handle_disconnect.
AgentLoopEnds ==
    /\ agent.pc = "loop"
    /\ agent.ws = "closed"
    /\ agent' = [agent EXCEPT !.out = <<>>, !.pc = "backoff"]
    /\ AgentFrame

\* _handle_disconnect, after an exception of the dial or of the hello.
AgentHandleDisconnect ==
    /\ agent.pc = "disconnect"
    /\ agent' = [agent EXCEPT !.tasks = FALSE, !.pending = {}, !.ws = "none",
                              !.state = IF agent.state # "stopping"
                                        THEN "disconnected" ELSE @,
                              !.out = <<>>,
                              !.pc = "backoff"]
    /\ AgentFrame

\* connect(): the counter is incremented, the delay computed, the sleep begun.
AgentBackoff(jitter) ==
    /\ agent.pc = "backoff"
    /\ agent.running /\ agent.state # "stopping"
    /\ agent.reconnect_attempts < MaxAttempts
    /\ agent' = [agent EXCEPT !.state = "reconnecting",
                              !.reconnect_attempts = @ + 1,
                              !.delay = [base |-> ReconnectDelay(
                                                    agent.reconnect_attempts + 1),
                                         jitter |-> jitter],
                              !.out = <<>>,
                              !.pc = "sleep"]
    /\ AgentFrame

\* connect(): no backoff for an agent that does not run or is STOPPING; the
\* loop is at its top again.
AgentNoBackoff ==
    /\ agent.pc = "backoff"
    /\ ~(agent.running /\ agent.state # "stopping")
    /\ agent' = [agent EXCEPT !.out = <<>>, !.pc = "dial"]
    /\ AgentFrame

\* The sleep ends and connect() is at the top of its loop again.
AgentWake ==
    /\ agent.pc = "sleep"
    /\ agent' = [agent EXCEPT !.out = <<>>, !.pc = "dial"]
    /\ AgentFrame

\* _handle_proxy_http ends: one proxy_http_resp goes to _send_message_safe.
AgentProxyDone(rid, outcome, ok) ==
    /\ rid \in agent.pending
    /\ CanSend(agent) \/ Len(agent.queue) < MaxQueue
    /\ agent' = send_message_safe([agent EXCEPT !.pending = agent.pending \ {rid}],
                    AgentMessage("proxy_http_resp", rid, ProxyStatus(outcome)), ok)
    /\ AgentFrame

\* _heartbeat_loop: a heartbeat, while the agent is CONNECTED.
AgentHeartbeat(ok) ==
    /\ agent.tasks
    /\ agent.running
    /\ agent.state = "connected"
    /\ agent' = send_message_safe(agent, AgentMessage("heartbeat", None, NoRow), ok)
    /\ AgentFrame

\* _capabilities_loop: a report after its sleep, whatever the state is by then.
AgentCapabilities(ok) ==
    /\ agent.tasks
    /\ agent' = send_message_safe(agent, AgentMessage("capabilities", None, NoRow), ok)
    /\ AgentFrame

\* stop() up to its first await (of the cancelled health monitor): the agent
\* does not run any more and is STOPPING; connect() has not been cancelled yet.
AgentStop ==
    /\ agent.stop = "no"
    /\ agent' = [agent EXCEPT !.running = FALSE, !.state = "stopping",
                              !.out = <<>>, !.stop = "awaiting"]
    /\ AgentFrame

\* The flush loop turns without an await: no other task runs, no cancellation
\* is delivered.
FlushSpins == agent.pc = "flush" /\ agent.queue # <<>> /\ ~CanSend(agent)

\* stop() from the cancellation of connect() on: _handle_disconnect and the
\* cancellation of every task.
AgentStopFinish ==
    /\ agent.stop = "awaiting"
    /\ ~FlushSpins
    /\ agent' = [agent EXCEPT !.tasks = FALSE, !.pending = {}, !.ws = "none",
                              !.state = IF agent.state # "stopping"
                                        THEN "disconnected" ELSE @,
                              !.out = <<>>, !.pc = "stopped", !.stop = "done"]
    /\ AgentFrame

\* The steps of connect() itself.
AgentConnect ==
    \/ AgentDialStart
    \/ \E ok \in BOOLEAN : AgentDial(ok)
    \/ AgentHello
    \/ \E ok \in BOOLEAN : AgentFlush(ok)
    \/ AgentLoopEnds
    \/ AgentHandleDisconnect
    \/ \E jitter \in Jitters : AgentBackoff(jitter)
    \/ AgentNoBackoff
    \/ AgentWake

AgentNext ==
    \/ AgentDialStart
    \/ \E ok \in BOOLEAN : AgentDial(ok)
    \/ AgentHello
    \/ \E ok \in BOOLEAN : AgentFlush(ok)
    \/ AgentLoopEnds
    \/ AgentHandleDisconnect
    \/ \E jitter \in Jitters : AgentBackoff(jitter)
    \/ AgentNoBackoff
    \/ AgentWake
    \/ \E type \in HubMessageTypes, rid \in RequestIds : AgentReceive(type, rid)
    \/ HubClose
    \/ \E rid \in RequestIds, outcome \in LocalOutcomes, ok \in BOOLEAN :
          AgentProxyDone(rid, outcome, ok)
    \/ \E ok \in BOOLEAN : AgentHeartbeat(ok)
    \/ \E ok \in BOOLEAN : AgentCapabilities(ok)
    \/ AgentStop
    \/ AgentStopFinish

\* The agent alone; connect() runs whenever it can, as the event loop and the
\* timers make progress.
AgentSpec == Init /\ [][AgentNext]_vars /\ WF_vars(AgentConnect)

-----------------------------------------------------------------------------
\* Two viewers of different users and one device: the signalling of a session
\* seen from the viewer that did not create it.

\* The hellos of the two users' viewers.
OwnerHellos == [type : {"hello"}, token : {"tok1", "tok2"}]

OwnerNext ==
    \/ DeviceHello("dc1", [type |-> "hello", device_id |-> "D1"])
    \/ ConnectDeviceStore("dc1", TRUE)
    \/ \E v \in ViewConns, msg \in OwnerHellos : ViewerHello(v, msg, TRUE)
    \/ \E v \in ViewConns : WatchRequest(v, "D1")
    \/ \E v \in ViewConns : WatchRequestCommit(v)
    \/ \E v \in ViewConns, session_id \in NamedSessionIds, sdp \in SdpValues :
            SignalOffer(v, session_id, sdp)
    \/ \E v \in ViewConns, session_id \in NamedSessionIds : EndWatch(v, session_id)
    \/ \E v \in ViewConns, session_id \in NamedSessionIds, candidate \in CandidateValues :
            ViewerSignalIce(v, session_id, candidate)

OwnerSpec == Init /\ [][OwnerNext]_vars

----------------------------------------------------------------------------
\* One viewer and one device with the viewer's socket between them: the
\* messages the viewer wrote wait in the socket until viewer_websocket's loop
\* reads them, one at a time, each handled to its end before the next is read.


\* The signalling of the viewer's session: an offer and two candidates.
RelayMessages ==
    [type : {"signal_offer"}, session_id : {1}, arg : {"sdp1"}]
    \cup [type : {"signal_ice"}, session_id : {1}, arg : CandidateValues]

\* The viewer writes a message to its socket (each message once).
ViewerPost(msg) ==
    /\ vpc["vc1"] \in {"loop", "watch_commit"}
    /\ \A i \in DOMAIN wire.posted : wire.posted[i] # msg
    /\ wire' = [wire EXCEPT !.inbox = Append(@, msg), !.posted = Append(@, msg)]
    /\ sent' = <<>>
    /\ UNCHANGED <<devices, hubvars, now, restvars, agent, chan>>

\* The viewer's watch_request, read by the loop when nothing older is unread
\* and the device reads its socket.
RelayWatch ==
    /\ wire.inbox = <<>>
    /\ wire.blocked = <<>>
    /\ ~wire.stalled
    /\ WatchRequest("vc1", "D1")

\* The message a receive_json returns when it reads the socket a second time.
NextMessage_Newest(inbox) == inbox[Len(inbox)]

\* websocket.receive_json(): the oldest message of the socket not read yet.
NextMessage(inbox) == Head(inbox)

\* handle_viewer_message(signal_offer / signal_ice): the rows after the
\* handler's commit, and the frames its send_to_device is to write.
RelaySessions(msg) ==
    LET session == SelectSession(msg.session_id)
    IN IF msg.type = "signal_offer" /\ session # NoRow
       THEN [sessions EXCEPT ![session].status = "active"]
       ELSE sessions

RelayFrames(msg) ==
    LET session == SelectSession(msg.session_id)
        device == IF session # NoRow
                  THEN SelectDeviceById(sessions[session].device_id)
                  ELSE NoRow
    IN IF device # NoRow
       THEN send_to_device(devices[device].device_id, msg.type, msg.session_id, msg.arg)
       ELSE <<>>

\* One turn of viewer_websocket's loop: receive_json, then handle_viewer_message
\* awaited to its end.  The handler's send_json has no deadline: while the
\* device does not read, the handler stays at that await with its frames
\* unwritten, and the loop does not come back to receive_json.
RelayHandle ==
    /\ vpc["vc1"] = "loop"
    /\ wire.inbox # <<>>
    /\ wire.blocked = <<>>
    /\ LET msg == NextMessage(wire.inbox)
           frames == RelayFrames(msg)
       IN /\ sessions' = RelaySessions(msg)
          /\ IF frames # <<>> /\ wire.stalled
             THEN /\ sent' = <<>>
                  /\ wire' = [wire EXCEPT !.inbox = Tail(@),
                                          !.handled = Append(@, msg),
                                          !.blocked = frames]
             ELSE /\ sent' = frames
                  /\ wire' = [wire EXCEPT !.inbox = Tail(@),
                                          !.handled = Append(@, msg),
                                          !.log = @ \o frames]
    /\ UNCHANGED <<devices, device_connections, viewer_connections,
                   device_heartbeats, viewer_heartbeats, redis_hashes,
                   redis_keys, redis, proxy, now, dpc, dlocal, vpc, vlocal, vreq,
                   dsnap, restvars, agent, chan>>

\* The device reads again: the send_json the handler was held at returns.
RelayResume ==
    /\ wire.blocked # <<>>
    /\ ~wire.stalled
    /\ sent' = wire.blocked
    /\ wire' = [wire EXCEPT !.log = @ \o wire.blocked, !.blocked = <<>>]
    /\ UNCHANGED <<devices, hubvars, now, restvars, agent, chan>>

\* The device stops reading its socket once its session is set up, and reads again.
DeviceStalls ==
    /\ sessions # <<>>
    /\ vpc["vc1"] = "loop"
    /\ ~wire.stalled
    /\ wire' = [wire EXCEPT !.stalled = TRUE]
    /\ sent' = <<>>
    /\ UNCHANGED <<devices, hubvars, now, restvars, agent, chan>>

DeviceDrains ==
    /\ wire.stalled
    /\ wire' = [wire EXCEPT !.stalled = FALSE]
    /\ sent' = <<>>
    /\ UNCHANGED <<devices, hubvars, now, restvars, agent, chan>>

RelayNext ==
    \/ DeviceHello("dc1", [type |-> "hello", device_id |-> "D1"])
    \/ \E ok \in BOOLEAN : ConnectDeviceStore("dc1", ok)
    \/ ViewerHello("vc1", [type |-> "hello", token |-> "tok1"], TRUE)
    \/ RelayWatch
    \/ WatchRequestCommit("vc1")
    \/ \E msg \in RelayMessages : ViewerPost(msg)
    \/ RelayHandle
    \/ RelayResume
    \/ DeviceStalls
    \/ DeviceDrains

RelaySpec == Init /\ [][RelayNext]_vars

----------------------------------------------------------------------------
\* The device agent seen from its websocket: connect() dialling a socket and
\* writing the hello on it, and the coroutines that write through
\* _send_message_safe under _ws_send_lock.  A write is in progress from the
\* call of ws.send to its return; sockets are numbered in the order dialled.

MaxSockets == 2

\* _start_background_tasks: the two loops it creates.
Background == {"heartbeat", "capabilities"}

\* A lock any coroutine may take.
LockFree_Always(c) == TRUE

\* asyncio.Lock.locked() is False: `async with self._ws_send_lock` enters.
LockFree(c) == c.lock = "free"

\* _send_message_safe: `self.ws and not self.ws.closed and self.state == CONNECTED`
CanWrite(c) == c.ws # 0 /\ c.ws \notin c.closed /\ c.state = "connected"

\* task.cancel() on the tasks of S: each leaves its await, and `async with`
\* releases the lock when the task held it.
CancelTasks(c, S) ==
    [c EXCEPT !.pc = [w \in DOMAIN c.pc |-> IF w \in S THEN "idle" ELSE c.pc[w]],
              !.on = [w \in DOMAIN c.on |-> IF w \in S THEN 0 ELSE c.on[w]],
              !.lock = IF c.lock \in S THEN "free" ELSE c.lock]

ChanFrame == UNCHANGED <<devices, hubvars, now, sent, restvars, agent, wire>>

\* connect(): state = CONNECTING, then websockets.connect returns a new socket
\* or fails (timeout, refused).
ChanDial(ok) ==
    /\ chan.cpc = "dial"
    /\ Cardinality(chan.closed) < MaxSockets
    /\ chan.ws \in chan.closed \cup {0}
    /\ chan' = IF ok
               THEN [chan EXCEPT !.state = "connecting",
                                 !.ws = Cardinality(chan.closed) + 1,
                                 !.cpc = "hello"]
               ELSE [chan EXCEPT !.state = "connecting", !.cpc = "disconnect"]
    /\ ChanFrame

\* connect(): `await self.ws.send(hello)` is called, outside the lock.
ChanHelloBegin ==
    /\ chan.cpc = "hello"
    /\ chan' = [chan EXCEPT !.pc["connect"] = "write", !.on["connect"] = chan.ws,
                            !.cpc = "hello_write"]
    /\ ChanFrame

\* The hello's send returns: state = CONNECTED, _start_background_tasks cancels
\* the background tasks of the socket before and creates the two loops; or the
\* send raises and connect() goes to _handle_disconnect.
ChanHelloEnd(ok) ==
    /\ chan.cpc = "hello_write"
    /\ LET c == [chan EXCEPT !.pc["connect"] = "idle", !.on["connect"] = 0]
       IN chan' = IF ok
                  THEN [CancelTasks(c, Background) EXCEPT
                            !.state = "connected", !.tasks = TRUE, !.cpc = "flush"]
                  ELSE [c EXCEPT !.cpc = "disconnect"]
    /\ ChanFrame

\* _flush_message_queue: a queued message is passed to _send_message_safe, or
\* the queue is empty and connect() enters message_loop.
ChanFlush(queued) ==
    /\ chan.cpc = "flush"
    /\ chan.pc["connect"] = "idle"
    /\ chan' = IF queued
               THEN [chan EXCEPT !.pc["connect"] = "wait"]
               ELSE [chan EXCEPT !.cpc = "loop"]
    /\ ChanFrame

\* message_loop receives proxy_http: a task is created for _handle_proxy_http.
ChanProxyStart(w) ==
    /\ chan.cpc = "loop"
    /\ chan.ws \notin chan.closed
    /\ chan.pc[w] = "idle"
    /\ chan' = [chan EXCEPT !.pc[w] = "run"]
    /\ ChanFrame

\* A coroutine calls _send_message_safe and comes to `async with self._ws_send_lock`:
\* a background loop while its task lives, a proxy task with its response.
WriterEnter(w) ==
    /\ \/ w \in Background /\ chan.tasks /\ chan.pc[w] = "idle"
       \/ w \in (Writers \ Background) /\ chan.pc[w] = "run"
    /\ chan' = [chan EXCEPT !.pc[w] = "wait"]
    /\ ChanFrame

\* The lock is taken and, with no await in between, the socket is checked and
\* ws.send called on it; when the check fails the message is queued or dropped
\* and the lock released.
WriterAcquire(w) ==
    /\ chan.pc[w] = "wait"
    /\ LockFree(chan)
    /\ chan' = IF CanWrite(chan)
               THEN [chan EXCEPT !.lock = w, !.pc[w] = "write", !.on[w] = chan.ws]
               ELSE [chan EXCEPT !.pc[w] = "idle"]
    /\ ChanFrame

\* ws.send returns or raises inside _send_message_safe: the lock is released.
WriterDone(w) ==
    /\ chan.pc[w] = "write"
    /\ chan.lock = w
    /\ chan' = [chan EXCEPT !.lock = "free", !.pc[w] = "idle", !.on[w] = 0]
    /\ ChanFrame

\* The hub closes the socket: message_loop returns without raising, so
\* connect() goes on to its backoff (state = RECONNECTING) with every task
\* left running, and back to the top of its loop.
ChanLoopEnds ==
    /\ chan.cpc = "loop"
    /\ chan' = [chan EXCEPT !.closed = @ \cup {chan.ws}, !.state = "reconnecting",
                            !.cpc = "dial"]
    /\ ChanFrame

\* _handle_disconnect after a failed dial or hello: the background and proxy
\* tasks are cancelled, the socket closed and forgotten, then the backoff.
ChanHandleDisconnect ==
    /\ chan.cpc = "disconnect"
    /\ chan' = [CancelTasks(chan, Writers) EXCEPT
                   !.closed = IF chan.ws = 0 THEN @ ELSE @ \cup {chan.ws},
                   !.ws = 0, !.tasks = FALSE, !.state = "reconnecting",
                   !.cpc = "dial"]
    /\ ChanFrame

WriteNext ==
    \/ \E ok \in BOOLEAN : ChanDial(ok)
    \/ ChanHelloBegin
    \/ \E ok \in BOOLEAN : ChanHelloEnd(ok)
    \/ \E queued \in BOOLEAN : ChanFlush(queued)
    \/ \E w \in (Writers \ Background) : ChanProxyStart(w)
    \/ \E w \in Writers : WriterEnter(w)
    \/ \E w \in (Writers \cup {"connect"}) : WriterAcquire(w)
    \/ \E w \in (Writers \cup {"connect"}) : WriterDone(w)
    \/ ChanLoopEnds
    \/ ChanHandleDisconnect

WriteSpec == Init /\ [][WriteNext]_vars

----------------------------------------------------------------------------
\* Vocabulary of the properties.

\* A connect_device / disconnect_device of the device_id is between two of its awaits.
AttachRunning(device_id) ==
    \E c \in DevConns : dpc[c] = "attach_store" /\ dlocal[c] = device_id
DetachRunning(device_id) ==
    \E c \in DevConns : dpc[c] \in {"detach_store", "detach_sessions"} /\ dlocal[c] = device_id

\* The persisted is_online flag of the device_id.
IsOnline(device_id) ==
    \E pk \in DOMAIN devices : devices[pk].device_id = device_id /\ devices[pk].is_online

\* The viewer connections whose handler is in its message loop (a watch_request
\* awaiting its commit included), and the device connections likewise.
ViewerInLoop(v) == vpc[v] \in {"loop", "watch_commit"}
DeviceInLoop(c) == dpc[c] = "loop"

\* C1: the only status changes of a session row are pending -> active,
\* pending -> ended and active -> ended, and a row that is ended is never
\* written again (status, ended_at and ended_reason keep their values).
C1_StatusMachine ==
    [][\A i \in DOMAIN sessions :
        /\ sessions'[i].status # sessions[i].status
            => <<sessions[i].status, sessions'[i].status>>
                  \in {<<"pending", "active">>, <<"pending", "ended">>, <<"active", "ended">>}
        /\ sessions[i].status = "ended" => sessions'[i] = sessions[i]]_vars

\* C2: at any time at most one open channel per device-id and per user-id has
\* its messages processed by the hub (the hello of a newer channel closes the
\* one registered before it).
C2_OneChannelPerIdentity ==
    /\ \A c1, c2 \in DevConns :
          DeviceInLoop(c1) /\ DeviceInLoop(c2) /\ dlocal[c1] = dlocal[c2] => c1 = c2
    /\ \A v1, v2 \in ViewConns :
          ViewerInLoop(v1) /\ ViewerInLoop(v2) /\ vlocal[v1] = vlocal[v2] => v1 = v2

\* C3: a device connection that is registered stays the registered one, and the
\* device's online flag stays true, for as long as the connection is open and
\* no newer connection of the device completes hello: the detach of a
\* connection it superseded changes neither.
C3_SecondConnectionStays ==
    [][\A c \in DevConns :
        (/\ DeviceInLoop(c)
         /\ dpc'[c] = "loop"
         /\ DictGet(device_connections, dlocal[c]) = c
         /\ ~ \E o \in DevConns : dpc[o] = "idle" /\ dpc'[o] = "attach_store")
        => /\ DictGet(device_connections', dlocal[c]) = c
           /\ IsOnline(dlocal[c]) => IsOnline(dlocal[c])']_vars

\* C4: whenever no attach or detach of a device is between two of its steps, the
\* persisted is_online flag of the device is true exactly when the registry
\* holds a channel for its device_id.
C4_OnlineIffRegistered ==
    \A pk \in DOMAIN devices :
        LET device_id == devices[pk].device_id
        IN ~ (AttachRunning(device_id) \/ DetachRunning(device_id))
              => (devices[pk].is_online <=> device_id \in DOMAIN device_connections)

\* C5: the session fanout of a device's detach ends every pending or active
\* session of the device with device_disconnected, and sends watch_ended with
\* that reason to the session's viewer when the viewer is in the registry.
C5_DeviceDetachEndsAll ==
    [][\A c \in DevConns :
        dpc[c] = "detach_sessions" /\ dpc'[c] = "idle"
        => \A i \in SessionsOfDevice(dlocal[c]) :
              sessions[i].status \in {"pending", "active"}
              => /\ sessions'[i].status = "ended"
                 /\ sessions'[i].ended_reason = "device_disconnected"
                 /\ UserIdOfSession(i) \in DOMAIN viewer_connections
                      => \E k \in DOMAIN sent' :
                            sent'[k] = Frame(viewer_connections[UserIdOfSession(i)],
                                             "watch_ended", sessions[i].session_id,
                                             "device_disconnected")]_vars

\* C6: the session fanout of a viewer's detach ends every pending or active
\* session of the viewer with viewer_disconnected, and sends watch_ended with
\* that reason to the session's device when the device is in the registry.
C6_ViewerDetachEndsAll ==
    [][\A v \in ViewConns :
        vpc[v] = "detach_sessions" /\ vpc'[v] = "idle"
        => \A i \in SessionsOfViewer(vlocal[v]) :
              sessions[i].status \in {"pending", "active"}
              => /\ sessions'[i].status = "ended"
                 /\ sessions'[i].ended_reason = "viewer_disconnected"
                 /\ DeviceIdOfSession(i) \in DOMAIN device_connections
                      => \E k \in DOMAIN sent' :
                            sent'[k] = Frame(device_connections[DeviceIdOfSession(i)],
                                             "watch_ended", sessions[i].session_id,
                                             "viewer_disconnected")]_vars

\* The watch_ended frames of session row i among the frames of the last step.
WatchEndedFrames(frames, i) ==
    {k \in DOMAIN frames :
        frames[k].type = "watch_ended" /\ frames[k].session_id = sessions[i].session_id}

\* Exactly one watch_ended of row i with the reason is among the frames, and it
\* is written to the websocket.
OneWatchEnded(frames, i, reason, websocket) ==
    /\ Cardinality(WatchEndedFrames(frames, i)) = 1
    /\ \A k \in WatchEndedFrames(frames, i) :
          frames[k] = Frame(websocket, "watch_ended", sessions[i].session_id, reason)

\* C7 as claimed: when a device's socket closes while session S of that device
\* is active and S's viewer is in the registry, S leaves active only by becoming
\* ended with device_disconnected, in a step that writes exactly one
\* watch_ended{S, device_disconnected} to the viewer; S is ended so when the
\* detach finishes.
C7_DeviceDropNotifiesViewer ==
    [][\A c \in DevConns : \A i \in dsnap[c] :
        /\ sessions[i].status = "active"
            => \/ sessions'[i].status = "active" /\ dpc'[c] # "idle"
               \/ /\ sessions'[i].status = "ended"
                  /\ sessions'[i].ended_reason = "device_disconnected"
                  /\ UserIdOfSession(i) \in DOMAIN viewer_connections
                  /\ OneWatchEnded(sent', i, "device_disconnected",
                                   viewer_connections[UserIdOfSession(i)])
        /\ sessions[i].status = "ended" => sessions'[i] = sessions[i]]_vars

\* C7 as amended: the first step of a device's detach removes the device_id from
\* the registry, its store step records is_online false, and its session fanout
\* ends exactly the sessions of the device that are active when it runs, each
\* with ended_at set and ended_reason device_disconnected, writing exactly one
\* watch_ended{S, device_disconnected} to the channel registered for the
\* session's viewer when there is one; every other row is left as it is.
C7_DetachSteps ==
    [][\A c \in DevConns :
        /\ dpc[c] \in {"loop", "attach_store"} /\ dpc'[c] = "detach_store"
            => dlocal[c] \notin DOMAIN device_connections'
        /\ dpc[c] = "detach_store" /\ dpc'[c] = "detach_sessions"
            => ~ IsOnline(dlocal[c])'
        /\ dpc[c] = "detach_sessions" /\ dpc'[c] = "idle"
            => \A i \in DOMAIN sessions :
                  IF i \in SessionsOfDevice(dlocal[c]) /\ sessions[i].status = "active"
                  THEN /\ sessions'[i].status = "ended"
                       /\ sessions'[i].ended_at # None
                       /\ sessions'[i].ended_reason = "device_disconnected"
                       /\ IF UserIdOfSession(i) \in DOMAIN viewer_connections
                          THEN OneWatchEnded(sent', i, "device_disconnected",
                                             viewer_connections[UserIdOfSession(i)])
                          ELSE WatchEndedFrames(sent', i) = {}
                  ELSE /\ sessions'[i] = sessions[i]
                       /\ WatchEndedFrames(sent', i) = {}]_vars

\* C7, its case: a device's detach has finished, a session of the device is
\* ended with device_disconnected, the last step wrote its watch_ended to the
\* viewer's channel, and the device is neither in the registry nor online.
C7_Witness ==
    \E i \in DOMAIN sessions :
        /\ sessions[i].status = "ended"
        /\ sessions[i].ended_reason = "device_disconnected"
        /\ UserIdOfSession(i) \in DOMAIN viewer_connections
        /\ OneWatchEnded(sent, i, "device_disconnected",
                         viewer_connections[UserIdOfSession(i)])
        /\ DeviceIdOfSession(i) \notin DOMAIN device_connections
        /\ ~ IsOnline(DeviceIdOfSession(i))

\* C8: whenever a session is active, the registry holds a channel for the
\* session's device or a detach of that device (whose fanout ends the session)
\* is under way.
C8_ActiveHasDeviceOrFanout ==
    \A i \in DOMAIN sessions :
        sessions[i].status = "active"
        => \/ DeviceIdOfSession(i) \in DOMAIN device_connections
           \/ DetachRunning(DeviceIdOfSession(i))

\* C9: a watch_request that passed the checks (the device exists and is in the
\* registry) inserts exactly one row, pending, with a session_id no row had,
\* bound to the requesting viewer and the named device, replies watch_ready to
\* a channel of that viewer and sends watch_request to a channel of that
\* device, both frames carrying the new session_id.
C9_WatchRequestCreatesSession ==
    [][\A v \in ViewConns :
        vpc[v] = "watch_commit" /\ vpc'[v] = "loop"
        => /\ Len(sessions') = Len(sessions) + 1
           /\ \A i \in DOMAIN sessions : sessions'[i] = sessions[i]
           /\ LET row == sessions'[Len(sessions')]
              IN /\ row.status = "pending"
                 /\ \A i \in DOMAIN sessions : sessions[i].session_id # row.session_id
                 /\ StrOfInt(row.user_id) = vlocal[v]
                 /\ devices[row.device_id].device_id = vreq[v].device_id
                 /\ \E k \in DOMAIN sent' :
                       /\ sent'[k].type = "watch_ready"
                       /\ sent'[k].session_id = row.session_id
                       /\ sent'[k].to \in {x \in ViewConns : vlocal[x] = vlocal[v]}
                 /\ \E k \in DOMAIN sent' :
                       /\ sent'[k].type = "watch_request"
                       /\ sent'[k].session_id = row.session_id
                       /\ sent'[k].to \in {x \in DevConns : dlocal[x] = vreq[v].device_id}]_vars

\* C10: a watch_request for a device that does not exist is answered with error
\* "Device not found", one for a device that exists and is not in the registry
\* with error "Device is offline"; neither creates a session row (at once or
\* later), writes the presence store or sends anything to a device.
C10_WatchRequestRejected ==
    [][\A v \in ViewConns : \A device_id \in DeviceIds \cup {None} :
        (/\ WatchRequest(v, device_id)
         /\ SelectDeviceByDeviceId(device_id) = NoRow \/ ~ is_device_online(device_id))
        => /\ \E k \in DOMAIN sent' :
                 /\ sent'[k].type = "error"
                 /\ sent'[k].to \in {x \in ViewConns : vlocal[x] = vlocal[v]}
                 /\ sent'[k].arg = IF SelectDeviceByDeviceId(device_id) = NoRow
                                   THEN "Device not found" ELSE "Device is offline"
           /\ sessions' = sessions
           /\ redis_hashes' = redis_hashes
           /\ vpc'[v] = "loop"
           /\ \A k \in DOMAIN sent' : sent'[k].to \notin DevConns]_vars

\* C11: a signal_answer or signal_ice a device sends with a session_id is
\* forwarded to a viewer only if a row has that session_id, the row is pending
\* or active, and the row's device is the sender's device.
C11_DeviceSignalChecked ==
    [][\A c \in DevConns, type \in DeviceSignalTypes, session_id \in NamedSessionIds :
        \A value \in SignalValues(type) :
            DeviceSignal(c, type, session_id, value) /\ sent' # <<>>
            => \E i \in DOMAIN sessions :
                  /\ sessions[i].session_id = session_id
                  /\ sessions[i].status \in {"pending", "active"}
                  /\ DeviceIdOfSession(i) = dlocal[c]]_vars

\* C12: a viewer's signal_offer or signal_ice that names a session_id no row
\* has, or a row that is ended, writes no frame and changes no session row.
C12_ViewerSignalDropped ==
    [][\A v \in ViewConns, session_id \in NamedSessionIds :
        LET session == SelectSession(session_id)
            dead == \/ session = NoRow
                    \/ session # NoRow /\ sessions[session].status = "ended"
        IN /\ \A sdp \in SdpValues :
                 SignalOffer(v, session_id, sdp) /\ dead
                 => sent' = <<>> /\ sessions' = sessions
           /\ \A candidate \in CandidateValues :
                 ViewerSignalIce(v, session_id, candidate) /\ dead
                 => sent' = <<>> /\ sessions' = sessions]_vars

\* C13: an end_watch for a pending or active session sets the row to ended with
\* ended_at set and ended_reason user_ended, writes exactly one
\* watch_ended{session_id, user_ended} to the registered channel of the row's
\* device when there is one (and nothing otherwise), and leaves no field of
\* session:{session_id} in the presence store.
C13_EndWatchEnds ==
    [][\A v \in ViewConns, session_id \in SessionIds :
        LET i == SelectSession(session_id)
        IN EndWatch(v, session_id) /\ i # NoRow /\ sessions[i].status \in {"pending", "active"}
           => /\ sessions'[i].status = "ended"
              /\ sessions'[i].ended_reason = "user_ended"
              /\ sessions'[i].ended_at # None
              /\ IF DeviceIdOfSession(i) \in DOMAIN device_connections
                 THEN sent' = <<Frame(device_connections[DeviceIdOfSession(i)],
                                      "watch_ended", session_id, "user_ended")>>
                 ELSE sent' = <<>>
              /\ \A e \in redis_hashes' : e[1] # SessionKey(session_id)]_vars

\* C14: what the hub forwards is what the sender supplied: every frame a
\* signal_offer / signal_ice of a viewer writes goes to the registered channel
\* of the session's device, every frame a signal_answer / signal_ice of a device
\* writes goes to the registered channel of the session's viewer, each with the
\* sender's type, session_id and sdp or candidate value; and a signal_offer
\* for a pending session leaves it active.
C14_SignalingOpaque ==
    [][/\ \A v \in ViewConns, session_id \in NamedSessionIds :
            LET i == SelectSession(session_id)
                ToDevice(type, value) ==
                    \A k \in DOMAIN sent' :
                        /\ i # NoRow
                        /\ DeviceIdOfSession(i) \in DOMAIN device_connections
                        /\ sent'[k] = [to |-> device_connections[DeviceIdOfSession(i)],
                                       type |-> type, session_id |-> session_id,
                                       arg |-> value, code |-> 0]
            IN /\ \A sdp \in SdpValues :
                     SignalOffer(v, session_id, sdp)
                     => /\ ToDevice("signal_offer", sdp)
                        /\ Len(sent') <= 1
                        /\ i # NoRow /\ DeviceIdOfSession(i) \in DOMAIN device_connections
                            => Len(sent') = 1
                        /\ i # NoRow /\ sessions[i].status = "pending"
                            => sessions'[i].status = "active"
               /\ \A candidate \in CandidateValues :
                     ViewerSignalIce(v, session_id, candidate)
                     => /\ ToDevice("signal_ice", candidate)
                        /\ Len(sent') <= 1
                        /\ i # NoRow /\ DeviceIdOfSession(i) \in DOMAIN device_connections
                            => Len(sent') = 1
       /\ \A c \in DevConns, type \in DeviceSignalTypes, session_id \in NamedSessionIds :
            \A value \in SignalValues(type) :
                LET i == SelectSession(session_id)
                IN DeviceSignal(c, type, session_id, value)
                   => /\ \A k \in DOMAIN sent' :
                            /\ i # NoRow
                            /\ UserIdOfSession(i) \in DOMAIN viewer_connections
                            /\ sent'[k] = [to |-> viewer_connections[UserIdOfSession(i)],
                                           type |-> type, session_id |-> session_id,
                                           arg |-> value, code |-> 0]
                      /\ Len(sent') <= 1
                      /\ i # NoRow /\ UserIdOfSession(i) \in DOMAIN viewer_connections
                          => Len(sent') = 1]_vars

\* C14, its case: a session is active and the last step wrote the viewer's
\* signal_offer, with its sdp, to the device's channel.
C14_Witness ==
    \E i \in DOMAIN sessions :
        /\ sessions[i].status = "active"
        /\ DeviceIdOfSession(i) \in DOMAIN device_connections
        /\ sent = <<[to |-> device_connections[DeviceIdOfSession(i)],
                     type |-> "signal_offer", session_id |-> sessions[i].session_id,
                     arg |-> "sdp2", code |-> 0]>>

\* The first messages the claim C20 calls not a valid hello.
InvalidDeviceHello(msg) ==
    \/ msg.type # "hello"
    \/ msg.device_id = None
    \/ \A pk \in DOMAIN devices : devices[pk].device_id # msg.device_id
InvalidViewerHello(msg) ==
    \/ msg.type # "hello"
    \/ msg.token = None
    \/ msg.token = "bad"

C19_HeartbeatAcked ==
    [][/\ \A v \in ViewConns, request_id \in RequestIds :
            ViewerHeartbeat(v, request_id) /\ vlocal[v] \in DOMAIN viewer_connections
            => /\ sent' = <<[to |-> viewer_connections[vlocal[v]], type |-> "heartbeat_ack",
                             session_id |-> NoRow, arg |-> request_id, code |-> 0]>>
               /\ vlocal[v] \in DOMAIN viewer_heartbeats'
               /\ viewer_heartbeats'[vlocal[v]] = now
       /\ \A c \in DevConns, request_id \in RequestIds :
            DeviceHeartbeat(c, request_id) /\ dlocal[c] \in DOMAIN device_connections
            => /\ sent' = <<[to |-> device_connections[dlocal[c]], type |-> "heartbeat_ack",
                             session_id |-> NoRow, arg |-> request_id, code |-> 0]>>
               /\ dlocal[c] \in DOMAIN device_heartbeats'
               /\ device_heartbeats'[dlocal[c]] = now]_vars

\* C19, its case: some time after its hello, the last step answered the
\* heartbeat r2 of a viewer in its message loop on that viewer's own channel,
\* with the instant of the heartbeat recorded.
C19_Witness ==
    \E v \in ViewConns :
        /\ vpc[v] = "loop"
        /\ vlocal[v] \in DOMAIN viewer_connections
        /\ viewer_connections[vlocal[v]] = v
        /\ vlocal[v] \in DOMAIN viewer_heartbeats
        /\ now > 0
        /\ viewer_heartbeats[vlocal[v]] = now
        /\ sent = <<[to |-> v, type |-> "heartbeat_ack", session_id |-> NoRow,
                     arg |-> "r2", code |-> 0]>>

\* C15: when the device in its message loop sends proxy_http_resp with the rid
\* of the request being polled for and a status, the envelope is there for the
\* waiter under proxy:response:{rid} with that status, and the device's
\* connection stays in its message loop and in the registry.
C15_ProxyResponseDelivered ==
    [][\A c \in DevConns, rid \in NamedRids, status \in ResponseStatuses :
        /\ ProxyHttpResp(c, rid, status)
        /\ proxy.pc = "polling" /\ proxy.rid = rid /\ proxy.device_id = dlocal[c]
        /\ dlocal[c] \in DOMAIN device_connections /\ device_connections[dlocal[c]] = c
        => /\ get(redis_keys', ProxyResponseKey(rid)) = status
           /\ dpc'[c] = "loop"
           /\ dlocal[c] \in DOMAIN device_connections'
           /\ device_connections'[dlocal[c]] = c]_vars

\* C16: a waiter that returns a response envelope returns the one stored under
\* proxy:response:{rid} for its own rid, that key is absent afterwards, and the
\* rid is not waited on again.
C16_OneEnvelopePerRid ==
    [][/\ proxy.pc = "polling" /\ proxy'.pc = "done" /\ proxy'.status # ProxyTimeout
            => /\ get(redis_keys, ProxyResponseKey(proxy.rid)) = proxy'.status
               /\ ProxyResponseKey(proxy.rid) \notin DOMAIN redis_keys'
       /\ proxy.pc = "done" /\ proxy'.pc = "polling" => proxy'.rid > proxy.rid]_vars

\* C16, its case: a waiter has returned a response envelope.
C16_WaiterSatisfied ==
    /\ proxy.pc = "done"
    /\ proxy.status \in ResponseStatuses

\* C17: a proxy request that is polling for its response ends, and it ends
\* only after PollAttempts polls and with status 504.
C17_ProxyTimesOut ==
    /\ [](proxy.pc = "polling" => <>(proxy.pc = "done" /\ proxy.status = ProxyTimeout))
    /\ [][proxy.pc = "polling" /\ proxy'.pc # "polling"
            => /\ proxy'.pc = "done"
               /\ proxy'.status = 504
               /\ proxy'.attempt = 60
               /\ proxy'.rid = proxy.rid]_vars

\* C17, its case: a request sent to a device that was online has polled to its
\* deadline and ended with 504.
C17_Witness ==
    /\ proxy.pc = "done"
    /\ proxy.status = 504
    /\ proxy.attempt = 60
    /\ proxy.rid > 0

\* C18: a proxy request for a device_id with no channel in the registry ends
\* at once with 503: no frame is written, no rid is drawn, no poll is made and
\* the presence store is left as it is.
C18_ProxyOffline ==
    [][\A device_id \in DeviceIds :
        ProxyRequest(device_id) /\ device_id \notin DOMAIN device_connections
        => /\ proxy'.pc = "done"
           /\ proxy'.status = 503
           /\ proxy'.attempt = 0
           /\ proxy'.rid = proxy.rid
           /\ sent' = <<>>
           /\ UNCHANGED <<redis_keys, redis_hashes>>]_vars

\* C18, its case: while another device is attached, a request for a device
\* that is registered but not connected has ended with 503, nothing written.
C18_Witness ==
    /\ proxy.pc = "done"
    /\ proxy.status = 503
    /\ proxy.device_id = "D2"
    /\ "D1" \in DOMAIN device_connections
    /\ sent = <<>>

-----------------------------------------------------------------------------
\* The ownership rows and the pairing codes consumed so far.
UsedCodes == {row \in DOMAIN pairing_codes : pairing_codes[row].is_used}

\* C21: a pairing code is consumed at most once, also when two redemptions of
\* it overlap: a redemption that commits (200, one ownership row) finds the code
\* it read still unused, so that there are never more ownership rows than
\* consumed codes.
C21_CodeConsumedOnce ==
    [][\A q \in HttpRequests :
          PairCommit(q) =>
             /\ pairing_codes[http[q].row].is_used = FALSE
             /\ Len(device_ownership') <= Cardinality(UsedCodes')]_vars

\* C22: the redemption of a code that is used or expired when the request is
\* served, by an authenticated user, is answered 404 and leaves the pairing
\* code rows and the ownership rows as they were.
C22_UsedOrExpiredNotFound ==
    [][\A q \in HttpRequests, token \in PairTokens, code \in NamedCodes :
          /\ PairSelect(q, token, code)
          /\ get_current_user(token) # NoRow
          /\ \E row \in DOMAIN pairing_codes :
                /\ pairing_codes[row].code = code
                /\ \/ pairing_codes[row].is_used
                   \/ pairing_codes[row].expires_at <= now
          => /\ http'[q].pc = "done"
             /\ http'[q].status = 404
             /\ pairing_codes' = pairing_codes
             /\ device_ownership' = device_ownership]_vars

\* A used code and an expired code have both been refused: a request answered
\* 404 stands next to a code that is used and one that has expired unused.
C22_Witness ==
    /\ \E q \in HttpRequests : /\ http[q].pc = "done"
                               /\ http[q].op = "pair"
                               /\ http[q].status = 404
    /\ \E row \in DOMAIN pairing_codes : pairing_codes[row].is_used
    /\ \E row \in DOMAIN pairing_codes : /\ ~pairing_codes[row].is_used
                                         /\ pairing_codes[row].expires_at <= now
    /\ Len(device_ownership) = 1

\* The device rows that carry a device_id.
RowsOfDevice(device_id) ==
    {pk \in DOMAIN devices : devices[pk].device_id = device_id}

\* C23: every registration is answered 200, whether its device_id is new or
\* known; after it there is exactly one record of that device_id, and a record
\* that was there before is the same as before.
C23_RegisterIdempotent ==
    [][\A q \in HttpRequests :
          /\ \/ RegisterCommit(q)
             \/ \E device_id \in RegisterDeviceIds, device_name \in DeviceNames,
                   device_type \in DeviceTypes :
                   RegisterSelect(q, device_id, device_name, device_type)
          /\ http'[q].pc = "done"
          => /\ http'[q].status = 200
             /\ \A pk \in DOMAIN devices : devices'[pk] = devices[pk]
             /\ \A device_id \in RegisterDeviceIds :
                   Cardinality(RowsOfDevice(device_id)') <= 1]_vars

\* C24: a device message whose handling raises is contained: the connection
\* that sent a proxy_http_resp, with or without a rid, is in its message loop
\* afterwards, and the registry and the heartbeats are as they were.
C24_HandlerIsBoundary ==
    [][\A c \in DevConns, rid \in NamedRids, status \in ResponseStatuses :
          ProxyHttpResp(c, rid, status)
          => /\ dpc'[c] = "loop"
             /\ device_connections' = device_connections
             /\ device_heartbeats' = device_heartbeats]_vars

\* The device's last heartbeat is older than the heartbeat timeout.
HeartbeatStale(device_id) ==
    /\ device_id \in DOMAIN device_heartbeats
    /\ now - device_heartbeats[device_id] > WS_HEARTBEAT_TIMEOUT

\* C25: a registered device connection whose last heartbeat is older than the
\* heartbeat timeout is eventually evicted from the registry (or heard from).
C25_StaleConnectionEvicted ==
    \A device_id \in DeviceIds :
        HeartbeatStale(device_id) ~> ~HeartbeatStale(device_id)

-----------------------------------------------------------------------------
\* C26: the agent enters CONNECTED, and resets its attempt counter to zero,
\* only on a connection on which it has received hello_ack.
C26_ConnectedOnHelloAck ==
    [][\/ agent.state # "connected" /\ agent'.state = "connected"
       \/ agent.reconnect_attempts # 0 /\ agent'.reconnect_attempts = 0
       => agent'.hello_ack]_vars

\* C27: the sleep before the next dial, after the n-th attempt in a row that
\* failed or was closed, is min(1 * 2^(n-1), 30) seconds plus a jitter in
\* [0, 1): the base is 1, 2, 4, 8, 16 for n = 1..5 and 30 from n = 6 on, it
\* does not decrease with n, and the whole sleep is below 31 seconds.
C27_BackoffDelay ==
    [][\A jitter \in Jitters :
          AgentBackoff(jitter)
          => LET n == agent'.reconnect_attempts
                 base == agent'.delay.base
             IN /\ n = agent.reconnect_attempts + 1
                /\ n >= 1
                /\ base = CASE n = 1 -> 1
                            [] n = 2 -> 2
                            [] n = 3 -> 4
                            [] n = 4 -> 8
                            [] n = 5 -> 16
                            [] OTHER -> 30
                /\ \A m \in 1 .. n : ReconnectDelay(m) <= base
                /\ agent'.delay.jitter >= 0
                /\ agent'.delay.jitter < 10
                /\ 10 * base + agent'.delay.jitter < 310]_vars

\* The agent sleeps after its sixth failed dial in a row, 30 seconds and more.
C27_Witness ==
    /\ agent.pc = "sleep"
    /\ agent.reconnect_attempts = 6
    /\ agent.delay.base = 30
    /\ agent.delay.jitter > 0

\* The agent is running and its dial or hello has failed, or its socket has
\* been closed.
AgentFailed ==
    /\ agent.running
    /\ \/ agent.pc \in {"disconnect", "backoff", "sleep"}
       \/ agent.ws = "closed"

\* C28: while the agent runs, a failed dial, a failed hello or a closed
\* connection is followed by a new connection attempt (as long as the attempts
\* followed here are not used up).
C28_AlwaysRetries ==
    AgentFailed ~> \/ agent.pc = "dial"
                   \/ ~agent.running
                   \/ agent.reconnect_attempts = MaxAttempts

\* C29: the end of the proxy task of rid R hands one proxy_http_resp to the
\* send path, which writes it, queues it or loses it to a failed write, and the
\* task is gone; the response carries R and the local status, 504 after a
\* timeout, 500 after any other failure.
C29_OneResponsePerRequest ==
    [][\A rid \in RequestIds, outcome \in LocalOutcomes, ok \in BOOLEAN :
          AgentProxyDone(rid, outcome, ok)
          => LET resp == [type |-> "proxy_http_resp", rid |-> rid,
                          status |-> CASE outcome.kind = "timeout" -> 504
                                       [] outcome.kind = "error" -> 500
                                       [] OTHER -> outcome.status]
             IN /\ rid \notin agent'.pending
                /\ \/ agent'.out = <<resp>> /\ agent'.queue = agent.queue
                   \/ agent'.out = <<>> /\ agent'.queue = Append(agent.queue, resp)
                   \/ /\ agent'.out = <<>> /\ agent'.queue = agent.queue
                      /\ CanSend(agent) /\ ~ok]_vars

\* The agent has just written the 504 of a local timeout for r1, and the task
\* of r2 still runs.
C29_Witness ==
    /\ agent.out = <<[type |-> "proxy_http_resp", rid |-> "r1", status |-> 504]>>
    /\ agent.pending = {"r2"}
    /\ agent.pc = "loop"

\* C30: off the connected channel a heartbeat or a capabilities message is
\* dropped and a proxy response is queued at the tail; what the flush writes is
\* the head of the queue; the queue holds proxy responses only.
C30_DropOrQueue ==
    [][/\ \A ok \in BOOLEAN :
             (AgentHeartbeat(ok) \/ AgentCapabilities(ok)) /\ ~CanSend(agent)
             => agent'.queue = agent.queue /\ agent'.out = <<>>
       /\ \A rid \in RequestIds, outcome \in LocalOutcomes, ok \in BOOLEAN :
             AgentProxyDone(rid, outcome, ok) /\ ~CanSend(agent)
             => /\ agent'.out = <<>>
                /\ Len(agent'.queue) = Len(agent.queue) + 1
                /\ SubSeq(agent'.queue, 1, Len(agent.queue)) = agent.queue
                /\ agent'.queue[Len(agent'.queue)].type = "proxy_http_resp"
                /\ agent'.queue[Len(agent'.queue)].rid = rid
       /\ \A ok \in BOOLEAN :
             AgentFlush(ok) /\ agent'.out # <<>>
             => /\ agent'.out = <<Head(agent.queue)>>
                /\ agent'.queue = Tail(agent.queue)
       /\ \A i \in 1 .. Len(agent'.queue) :
             agent'.queue[i].type \notin {"heartbeat", "capabilities"}]_vars

\* Two responses were queued while the agent was reconnecting, and the flush
\* after the next hello has written the older one and holds the younger.
C30_Witness ==
    /\ agent.pc = "flush"
    /\ agent.out = <<[type |-> "proxy_http_resp", rid |-> "r1", status |-> 200]>>
    /\ agent.queue = <<[type |-> "proxy_http_resp", rid |-> "r2", status |-> 504]>>
    /\ agent.tasks

-----------------------------------------------------------------------------
\* C33: a proxy_http_resp that carries a rid is stored in the presence store
\* under proxy:response:{rid}, there to expire, whichever store is in use.
C33_ResponseStored ==
    [][\A c \in DevConns, rid \in NamedRids \ {NoRow}, status \in ResponseStatuses :
          ProxyHttpResp(c, rid, status)
          => ProxyResponseKey(rid) \in DOMAIN redis_keys']_vars

\* C37: the identities with a recorded last heartbeat are the identities with
\* a registered channel, for devices and for viewers.
C37_HeartbeatsAreRegistered ==
    /\ DOMAIN device_heartbeats = DOMAIN device_connections
    /\ DOMAIN viewer_heartbeats = DOMAIN viewer_connections

-----------------------------------------------------------------------------
\* The changes of state of the lifecycle disconnected -> connecting ->
\* connected -> reconnecting -> disconnected.
Lifecycle == {<<"disconnected", "connecting">>, <<"connecting", "connected">>,
              <<"connected", "reconnecting">>, <<"reconnecting", "disconnected">>}

\* C34: every change of the agent's connection state is a step of the
\* lifecycle, or goes to stopping.
C34_LifecycleOnly ==
    [][agent'.state # agent.state
       => \/ <<agent.state, agent'.state>> \in Lifecycle
          \/ agent'.state = "stopping"]_vars

\* C36: when connect() comes to its next attempt after a lost connection, no
\* proxy task of the old connection is left.
C36_TasksCancelledOnLoss ==
    [][AgentDialStart => agent.pending = {}]_vars

\* C39: once stop() has been invoked the state is neither connecting nor
\* connected, and when stop() is over the state is stopping and no background
\* or proxy task is left.
C39_StopIsFinal ==
    /\ agent.stop # "no" => agent.state \notin {"connecting", "connected"}
    /\ agent.stop = "done" => /\ agent.state = "stopping"
                              /\ ~agent.tasks
                              /\ agent.pending = {}

\* C40: a turn of the flush loop takes a message off the queue for good: the
\* queue is shorter after it, whatever the channel's state.
C40_FlushTerminates ==
    [][\A ok \in BOOLEAN :
          AgentFlush(ok) /\ agent.queue # <<>>
          => Len(agent'.queue) < Len(agent.queue)]_vars

-----------------------------------------------------------------------------
\* The session of the given id exists and was created by another user than the
\* one of viewer connection v.
ForeignSession(v, session_id) ==
    /\ SelectSession(session_id) # NoRow
    /\ StrOfInt(sessions[SelectSession(session_id)].user_id) # vlocal[v]

\* C38: a signal_offer, signal_ice or end_watch that names a session of another
\* viewer changes no session and forwards nothing to the session's device.
C38_OwnSessionsOnly ==
    [][\A v \in ViewConns, session_id \in NamedSessionIds :
          /\ ForeignSession(v, session_id)
          /\ \/ \E sdp \in SdpValues : SignalOffer(v, session_id, sdp)
             \/ \E candidate \in CandidateValues :
                   ViewerSignalIce(v, session_id, candidate)
             \/ EndWatch(v, session_id)
          => /\ sessions' = sessions
             /\ \A i \in DOMAIN sent' : sent'[i].to \notin DevConns]_vars


\* The frame forwards the message: same type, same session, same payload value.
Forwards(frame, msg) ==
    /\ frame.type = msg.type
    /\ frame.session_id = msg.session_id
    /\ frame.arg = msg.arg

\* C31: the hub handles the messages of one connection strictly in the order
\* they arrived, and the frames it forwards from the viewer to the device are
\* written to the device in the order the viewer sent their messages (the
\* offer before any candidate the viewer sent after it).
C31_ArrivalOrder ==
    /\ Len(wire.handled) <= Len(wire.posted)
    /\ \A i \in DOMAIN wire.handled : wire.handled[i] = wire.posted[i]
    /\ \A i, j \in DOMAIN wire.log :
          i < j => \E a, b \in DOMAIN wire.posted :
                      /\ a < b
                      /\ Forwards(wire.log[i], wire.posted[a])
                      /\ Forwards(wire.log[j], wire.posted[b])

\* The viewer wrote an offer and then a candidate, and both reached the
\* device, in that order.
C31_Witness ==
    /\ Len(wire.posted) >= 2
    /\ wire.posted[1].type = "signal_offer"
    /\ wire.posted[2].type = "signal_ice"
    /\ Len(wire.log) >= 2
    /\ Forwards(wire.log[1], wire.posted[1])
    /\ Forwards(wire.log[2], wire.posted[2])

\* C32: handling a message never waits on the peer it forwards to: when the
\* loop has handled a message, no handler is left held at its send, whether
\* the device reads its socket or not.
C32_NeverBlocks ==
    [][RelayHandle => wire'.blocked = <<>>]_vars

\* The senders whose ws.send on the socket has been called and has not returned.
WritingOn(socket) ==
    {w \in (Writers \cup {"connect"}) : chan.pc[w] = "write" /\ chan.on[w] = socket}

\* C35: writes on the agent's websocket are serialized: at no time are two
\* writes in progress on it at once, whether they come from the heartbeat
\* loop, the capabilities loop, proxy tasks, the queue flush or the hello of
\* connect().
C35_WritesSerialized ==
    \A socket \in 1 .. MaxSockets : Cardinality(WritingOn(socket)) <= 1

\* One coroutine is writing on the open socket and another waits for the lock.
C35_Witness ==
    \E w1, w2 \in (Writers \cup {"connect"}) :
        /\ chan.pc[w1] = "write"
        /\ chan.on[w1] = chan.ws
        /\ chan.ws \notin chan.closed
        /\ chan.pc[w2] = "wait"

====
